---- MODULE Spec2Model ----
(***************************************************************************)
(* Model of the analytics dashboard's cache synchronisation                *)
(* (src/src/lib/analytics/sync.ts), of the store helpers it calls          *)
(* (src/src/lib/supabase/client.ts) and of the metrics calculator          *)
(* (src/unnamed/part_002).                                                 *)
(*                                                                         *)
(* Time is counted in ticks of 30 minutes.  Every remote operation (a      *)
(* store statement, an upstream request) is one action: the statement      *)
(* takes effect, its response is delivered and the caller's continuation   *)
(* runs up to the next await.  A statement that fails has no effect on the *)
(* store (one statement is atomic in the store).                           *)
(***************************************************************************)
EXTENDS Integers, FiniteSets, Sequences, Bags, TLC

\* ------------------------------------------------------------------ bounds
\* Last instant of the clock.
MaxTime == 3
\* Instant at which the model starts.
StartTime == 2
\* How many times the upstream data may change during a behaviour.
MaxUpstreamChanges == 1
\* How many query sites fail during one invocation of the calculator.
MaxFailures == 1

\* --------------------------------------------------------- program values
\* The freshness window, 60 * 60 * 1000 ms, in ticks of 30 minutes.
OneHour == 2
\* JavaScript null for a timestamp (Date | null).
NullTime == -1
\* JavaScript null / undefined for a string.
Null == "null"

\* The companies of the store, and those syncCompanyData is called for.
Companies == {"c1", "c2"}
SyncedCompanies == {"c1"}
\* Concurrent invocations of syncCompanyData.
Calls == {"k1", "k2"}

Time == 0..MaxTime

\* ------------------------------------------------------------ upstream data
\* Upstream receipts (whop.payments.listReceiptsForCompany) and members
\* (whop.companies.listMembers).  finalAmount is a major-unit amount, written
\* here in thousandths of the major unit (19990 is 19.99).
R1 == [id |-> "p1", status |-> "succeeded", finalAmount |-> 19990,
       accessPass |-> "prodA", accessPassName |-> "Alpha", user |-> "u1",
       createdAt |-> 1, paidAt |-> 1]
R1refunded == [R1 EXCEPT !.status = "refunded"]
R2 == [id |-> "p2", status |-> "", finalAmount |-> 0,
       accessPass |-> Null, accessPassName |-> Null, user |-> Null,
       createdAt |-> 0, paidAt |-> 0]
M1 == [id |-> "m1", status |-> "active", valid |-> TRUE, user |-> "u1",
       accessPass |-> "prodA", createdAt |-> 1, expiresAt |-> 0]
\* A member record without an id.
M0 == [id |-> Null, status |-> "", valid |-> FALSE, user |-> Null,
       accessPass |-> Null, createdAt |-> 0, expiresAt |-> 0]

DataEmpty == [receipts |-> {}, members |-> {}]
DataA == [receipts |-> {R1}, members |-> {M1}]
DataB == [receipts |-> {R1refunded, R2}, members |-> {M1, M0}]
UpstreamStates == {DataEmpty, DataA, DataB}

VARIABLES
    now,          \* the clock (Date.now())
    upstream,     \* upstream[c]: what the commerce API holds for company c
    upVersion,    \* how many times the upstream data has changed
    companies,    \* table companies: companies[c] = [exists, last_sync]
    payments,     \* table payments, a bag of rows
    memberships,  \* table memberships, a bag of rows
    products,     \* table products, a bag of rows
    call,         \* call[k]: one invocation of syncCompanyData
    metric,       \* the last invocation of a calculator function
    hook          \* the webhook request being handled

vars == <<now, upstream, upVersion, companies, payments, memberships, products,
          call, metric, hook>>

\* ------------------------------------------------------------ normalisation
\* x || null for an upstream string: undefined, null and '' are falsy.
OrNull(x) == IF x = Null \/ x = "" THEN Null ELSE x

\* p.createdAt ? new Date(p.createdAt * 1000).toISOString() : null.  Epoch
\* seconds to an ISO string loses nothing; a missing value and 0 give null.
EpochToIso(t) == IF t = NullTime \/ t = 0 THEN NullTime ELSE t

\* Math.round((p.finalAmount || 0) * 100): thousandths of the major unit to
\* integer minor units, halves rounded up.
\* Math.round(finalAmount || 0), the conversion to minor units left out.
ToCentsUnscaled(amount) == (amount + 500) \div 1000

ToCents(amount) == (amount + 5) \div 10

\* p.status === 'succeeded' ? 'paid' : p.status || 'unknown'
PaymentStatus(s) == IF s = "succeeded" THEN "paid"
                    ELSE IF s = Null \/ s = "" THEN "unknown" ELSE s

\* m.status || 'unknown'
MembershipStatus(s) == IF s = Null \/ s = "" THEN "unknown" ELSE s

PaymentRow(c, p) ==
    [id |-> p.id, company_id |-> c, product_id |-> OrNull(p.accessPass),
     user_id |-> OrNull(p.user), status |-> PaymentStatus(p.status),
     final_amount |-> ToCents(p.finalAmount),
     created_at |-> EpochToIso(p.createdAt), paid_at |-> EpochToIso(p.paidAt)]

PaymentsFormatted(c, ps) == {PaymentRow(c, p) : p \in ps}

MembershipRow(c, m) ==
    [id |-> m.id, company_id |-> c, product_id |-> OrNull(m.accessPass),
     user_id |-> OrNull(m.user), status |-> MembershipStatus(m.status),
     valid |-> m.valid, created_at |-> EpochToIso(m.createdAt),
     expires_at |-> EpochToIso(m.expiresAt)]

\* .filter((m) => m?.id).map(...)
MembershipsFormatted(c, ms) ==
    {MembershipRow(c, m) : m \in {x \in ms : OrNull(x.id) # Null}}

\* fetchAllProducts: the unique access passes of the receipts, the first
\* receipt of each product id giving its name.
ExtractProducts(receipts) ==
    LET ids == {r.accessPass : r \in {x \in receipts : OrNull(x.accessPass) # Null}}
        First(i) == CHOOSE r \in receipts : r.accessPass = i
    IN  {[id |-> i,
          name |-> IF OrNull(First(i).accessPassName) = Null
                   THEN "Unnamed Product" ELSE First(i).accessPassName] : i \in ids}

\* The product row with company_id left out.
ProductRowWithoutCompany(c, p, t) ==
    [id |-> p.id, company_id |-> Null,
     name |-> IF OrNull(p.name) = Null THEN "Unnamed Product" ELSE p.name,
     created_at |-> t]

\* name: p.title || p.name || 'Unnamed Product'; created_at: new Date().
ProductRow(c, p, t) ==
    [id |-> p.id, company_id |-> c,
     name |-> IF OrNull(p.name) = Null THEN "Unnamed Product" ELSE p.name,
     created_at |-> t]

ProductsFormatted(c, ps, t) == {ProductRow(c, p, t) : p \in ps}

\* -------------------------------------------------------------- the store
\* The conflict targets of the three bulk upserts.
PaymentKey(r) == <<r.company_id, r.id>>
MembershipKey(r) == <<r.company_id, r.id>>
ProductKey(r) == r.id

\* A plain insert in place of the upsert: every row is added.
InsertPayments(table, rows) == table (+) SetToBag(rows)
InsertMemberships(table, rows) == table (+) SetToBag(rows)

\* supabase.from(t).upsert(rows, {onConflict}): a row whose conflict target
\* is already in the table replaces the row there, any other row is added.
UpsertPayments(table, rows) ==
    LET keep == {x \in BagToSet(table) : \A r \in rows : PaymentKey(r) # PaymentKey(x)}
    IN  [x \in keep |-> table[x]] (+) SetToBag(rows)

UpsertMemberships(table, rows) ==
    LET keep == {x \in BagToSet(table) : \A r \in rows : MembershipKey(r) # MembershipKey(x)}
    IN  [x \in keep |-> table[x]] (+) SetToBag(rows)

UpsertProducts(table, rows) ==
    LET keep == {x \in BagToSet(table) : \A r \in rows : ProductKey(r) # ProductKey(x)}
    IN  [x \in keep |-> table[x]] (+) SetToBag(rows)

\* An upsert of the company row that stamps last_sync.
UpsertCompanyRowStamping(tbl, c) ==
    [tbl EXCEPT ![c] = [exists |-> TRUE, last_sync |-> now]]

\* upsert({id: companyId}, {onConflict: 'id'}): creates the row with a null
\* last_sync, and leaves the last_sync of a row that is there.
UpsertCompanyRow(tbl, c) ==
    IF tbl[c].exists THEN tbl
    ELSE [tbl EXCEPT ![c] = [exists |-> TRUE, last_sync |-> NullTime]]

\* update({last_sync}).eq('id', companyId)
UpdateLastSyncRow(tbl, c, t) ==
    IF tbl[c].exists THEN [tbl EXCEPT ![c].last_sync = t] ELSE tbl

\* getLastSync: no row (PGRST116) and a null last_sync both give null.
StoredLastSync(tbl, c) ==
    IF tbl[c].exists THEN tbl[c].last_sync ELSE NullTime

\* --------------------------------------------------------- syncCompanyData
FetchNames == {"payments", "memberships", "products"}

NoResult == [success |-> FALSE, paymentsCount |-> 0, membershipsCount |-> 0,
             productsCount |-> 0, syncedAt |-> NullTime, error |-> Null]

\* An invocation that has not started.  after, did, failed, skipped and
\* wroteLastSync are the record of the invocation: the invocations that had
\* returned when it was called, the functions it has called, the function
\* whose failure it caught, whether it returned at the freshness check and
\* whether its last-sync update was applied.
IdleCall ==
    [pc |-> "idle", companyId |-> Null, force |-> FALSE, after |-> {},
     lastSync |-> NullTime,
     fetched |-> {}, payments |-> {}, memberships |-> {}, products |-> {},
     rowsPayments |-> {}, rowsMemberships |-> {}, rowsProducts |-> {},
     up |-> [n \in FetchNames |-> "none"], lsTs |-> NullTime,
     did |-> {}, failed |-> Null, skipped |-> FALSE, wroteLastSync |-> FALSE,
     result |-> NoResult]

\* The freshness check with the comparison turned around.
IsFreshInverted(force, lastSync, t) ==
    ~force /\ lastSync # NullTime /\ lastSync < t - OneHour

\* The freshness check without the force flag.
IsFreshIgnoringForce(force, lastSync, t) ==
    lastSync # NullTime /\ lastSync > t - OneHour

\* !force && lastSync && lastSync > oneHourAgo, with oneHourAgo one hour
\* before t.
IsFresh(force, lastSync, t) ==
    ~force /\ lastSync # NullTime /\ lastSync > t - OneHour

\* The result of the skipped sync.
SkipResult(lastSync) ==
    [success |-> TRUE, paymentsCount |-> 0, membershipsCount |-> 0,
     productsCount |-> 0, syncedAt |-> lastSync, error |-> Null]

\* The result of the catch block.
FailureResult(t, msg) ==
    [success |-> FALSE, paymentsCount |-> 0, membershipsCount |-> 0,
     productsCount |-> 0, syncedAt |-> t, error |-> msg]

\* The result of a completed sync: the lengths of the fetched arrays.
SuccessResult(cl, t) ==
    [success |-> TRUE, paymentsCount |-> Cardinality(cl.payments),
     membershipsCount |-> Cardinality(cl.memberships),
     productsCount |-> Cardinality(cl.products), syncedAt |-> t, error |-> Null]

\* return: the locals of the invocation are gone; the rows of a bulk upsert
\* that is still in flight stay with its statement.
Return(cl, result) ==
    [cl EXCEPT !.pc = "returned", !.result = result,
               !.lastSync = NullTime, !.lsTs = NullTime, !.fetched = {},
               !.payments = {}, !.memberships = {}, !.products = {},
               !.rowsPayments = IF cl.up["payments"] = "todo" THEN @ ELSE {},
               !.rowsMemberships = IF cl.up["memberships"] = "todo" THEN @ ELSE {},
               !.rowsProducts = IF cl.up["products"] = "todo" THEN @ ELSE {}]

\* No catch: the error leaves syncCompanyData.
Rethrow(cl, op, t, msg) ==
    [cl EXCEPT !.pc = "raised", !.failed = op]

\* catch (error): the invocation returns the failure result.
Catch(cl, op, t, msg) ==
    Return([cl EXCEPT !.failed = op], FailureResult(t, msg))

\* error instanceof Error ? error.message : 'Unknown error'.  The store's
\* error object is an Error or a plain object, depending on the client
\* library's version: the result carries its message or 'Unknown error'.
StoreErrors == {"store error", "Unknown error"}

\* await updateLastSync(companyId) is issued: new Date() is read now.
IssueUpdateLastSync(cl, t) ==
    [cl EXCEPT !.pc = "updating", !.lsTs = t,
               !.did = @ \cup {"updateLastSync"}]

\* bulkInsertX(rows) is called: an empty array returns at once, without a
\* statement.
IssueUpsert(rows) == IF rows = {} THEN "ok" ELSE "todo"

\* No join of the fetches: each array is transformed and its bulk upsert
\* called as soon as its fetch has resolved.
AfterFetchPerArray(cl, t) ==
    LET c == cl.companyId
        rows == [payments |-> PaymentsFormatted(c, cl.payments),
                 memberships |-> MembershipsFormatted(c, cl.memberships),
                 products |-> ProductsFormatted(c, cl.products, t)]
        issued == [cl EXCEPT
                     !.pc = IF cl.fetched = FetchNames THEN "upserting" ELSE @,
                     !.rowsPayments = rows["payments"],
                     !.rowsMemberships = rows["memberships"],
                     !.rowsProducts = rows["products"],
                     !.up = [n \in FetchNames |->
                               IF n \in cl.fetched /\ cl.up[n] = "none"
                               THEN IssueUpsert(rows[n]) ELSE cl.up[n]],
                     !.did = @ \cup {"bulkInsertPayments",
                             "bulkInsertMemberships", "bulkInsertProducts"}]
    IN  IF \A n \in FetchNames : issued.up[n] = "ok"
        THEN IssueUpdateLastSync(issued, t) ELSE issued

\* The continuation of the first Promise.all: once the three fetches have
\* resolved, the arrays are transformed and the three bulk upserts are called.
AfterFetch(cl, t) ==
    IF cl.fetched # FetchNames THEN cl
    ELSE LET c == cl.companyId
             rp == PaymentsFormatted(c, cl.payments)
             rm == MembershipsFormatted(c, cl.memberships)
             rpr == ProductsFormatted(c, cl.products, t)
             issued == [cl EXCEPT !.pc = "upserting",
                          !.rowsPayments = rp, !.rowsMemberships = rm,
                          !.rowsProducts = rpr,
                          !.up = [payments |-> IssueUpsert(rp),
                                  memberships |-> IssueUpsert(rm),
                                  products |-> IssueUpsert(rpr)],
                          !.did = @ \cup {"bulkInsertPayments",
                                  "bulkInsertMemberships", "bulkInsertProducts"}]
         IN  IF \A n \in FetchNames : issued.up[n] = "ok"
             THEN IssueUpdateLastSync(issued, t) ELSE issued

\* The last-sync update issued as soon as one bulk upsert has completed.
AfterUpsertFirstDone(cl, t) ==
    IF cl.pc = "returned" THEN Return(cl, cl.result)
    ELSE IssueUpdateLastSync(cl, t)

\* The continuation of the second Promise.all.
AfterUpsert(cl, t) ==
    IF cl.pc = "returned" THEN Return(cl, cl.result)
    ELSE IF \A n \in FetchNames : cl.up[n] = "ok"
    THEN IssueUpdateLastSync(cl, t) ELSE cl

\* A bulk upsert fails: the second Promise.all rejects if it is still awaited.
UpsertFailed(cl, n, op, t, msg) ==
    LET marked == [cl EXCEPT !.up[n] = "err"]
    IN  IF cl.pc = "upserting" THEN Catch(marked, op, t, msg)
        ELSE Return(marked, cl.result)

\* The invocation syncCompanyData({ companyId: c, force }) at its first await.
StartedCall(c, force) ==
    [IdleCall EXCEPT !.pc = "getLastSync", !.companyId = c, !.force = force,
                     !.after = {j \in Calls : call[j].pc = "returned"},
                     !.did = {"getLastSync"}]

\* syncCompanyData({companyId, force}) is called.
StartSync(k, c, force) ==
    /\ call[k].pc = "idle"
    /\ call' = [call EXCEPT ![k] = StartedCall(c, force)]
    /\ UNCHANGED <<now, upstream, upVersion, companies, payments, memberships, products, metric, hook>>

\* The continuation of await getLastSync(companyId): the freshness check.
CheckFresh(cl, lastSync, t) ==
    IF IsFresh(cl.force, lastSync, t)
    THEN Return([cl EXCEPT !.skipped = TRUE], SkipResult(lastSync))
    ELSE [cl EXCEPT !.pc = "upsertCompany", !.lastSync = lastSync,
                    !.did = @ \cup {"upsertCompany"}]

\* getLastSync that throws on PGRST116 (no row) as on any other error.
LastSyncLookupNotFoundThrows(tbl, c, ok) ==
    IF ~ok \/ ~tbl[c].exists THEN [threw |-> TRUE, value |-> NullTime]
    ELSE [threw |-> FALSE, value |-> StoredLastSync(tbl, c)]

\* What getLastSync gives: it throws on a store error other than PGRST116
\* (no row), and gives null for no row and for a null last_sync.
LastSyncLookup(tbl, c, ok) ==
    IF ~ok THEN [threw |-> TRUE, value |-> NullTime]
    ELSE [threw |-> FALSE, value |-> StoredLastSync(tbl, c)]

\* The caller has taken the result and no statement of the invocation is in
\* flight: the slot is free for the next invocation.
Release(k) ==
    /\ call[k].pc = "returned"
    /\ \A n \in FetchNames : call[k].up[n] # "todo"
    /\ call' = [call EXCEPT ![k] = IdleCall]
    /\ UNCHANGED <<now, upstream, upVersion, companies, payments, memberships, products, metric, hook>>

GetLastSync(k, ok, msg) ==
    /\ call[k].pc = "getLastSync"
    /\ call' = [call EXCEPT ![k] =
          LET got == LastSyncLookup(companies, call[k].companyId, ok)
          IN  IF got.threw THEN Catch(call[k], "getLastSync", now, msg)
              ELSE CheckFresh(call[k], got.value, now)]
    /\ UNCHANGED <<now, upstream, upVersion, companies, payments, memberships, products, metric, hook>>

UpsertCompany(k, ok, msg) ==
    /\ call[k].pc = "upsertCompany"
    /\ IF ok
       THEN /\ companies' = UpsertCompanyRow(companies, call[k].companyId)
            /\ call' = [call EXCEPT ![k].pc = "fetching",
                           ![k].did = @ \cup {"fetchAllPayments",
                                    "fetchAllMemberships", "fetchAllProducts"}]
       ELSE /\ call' = [call EXCEPT ![k] = Catch(call[k], "upsertCompany", now, msg)]
            /\ UNCHANGED companies
    /\ UNCHANGED <<now, upstream, upVersion, payments, memberships, products, metric, hook>>

FetchAllPayments(k, ok) ==
    /\ call[k].pc = "fetching"
    /\ "payments" \notin call[k].fetched
    /\ call' = [call EXCEPT ![k] =
          IF ok THEN AfterFetch([call[k] EXCEPT !.fetched = @ \cup {"payments"},
                                   !.payments = upstream[call[k].companyId].receipts], now)
          ELSE Catch(call[k], "fetchAllPayments", now, "Failed to fetch receipts from Whop API")]
    /\ UNCHANGED <<now, upstream, upVersion, companies, payments, memberships, products, metric, hook>>

FetchAllMemberships(k, ok) ==
    /\ call[k].pc = "fetching"
    /\ "memberships" \notin call[k].fetched
    /\ call' = [call EXCEPT ![k] =
          IF ok THEN AfterFetch([call[k] EXCEPT !.fetched = @ \cup {"memberships"},
                                   !.memberships = upstream[call[k].companyId].members], now)
          ELSE Catch(call[k], "fetchAllMemberships", now, "Failed to fetch members from Whop API")]
    /\ UNCHANGED <<now, upstream, upVersion, companies, payments, memberships, products, metric, hook>>

FetchAllProducts(k, ok) ==
    /\ call[k].pc = "fetching"
    /\ "products" \notin call[k].fetched
    /\ call' = [call EXCEPT ![k] =
          IF ok THEN AfterFetch([call[k] EXCEPT !.fetched = @ \cup {"products"},
                                   !.products = ExtractProducts(upstream[call[k].companyId].receipts)], now)
          ELSE Catch(call[k], "fetchAllProducts", now, "Failed to fetch products from Whop API")]
    /\ UNCHANGED <<now, upstream, upVersion, companies, payments, memberships, products, metric, hook>>

BulkInsertPayments(k, ok, msg) ==
    /\ call[k].up["payments"] = "todo"
    /\ IF ok
       THEN /\ payments' = UpsertPayments(payments, call[k].rowsPayments)
            /\ call' = [call EXCEPT ![k] = AfterUpsert([call[k] EXCEPT !.up["payments"] = "ok"], now)]
       ELSE /\ call' = [call EXCEPT ![k] = UpsertFailed(call[k], "payments", "bulkInsertPayments", now, msg)]
            /\ UNCHANGED payments
    /\ UNCHANGED <<now, upstream, upVersion, companies, memberships, products, metric, hook>>

BulkInsertMemberships(k, ok, msg) ==
    /\ call[k].up["memberships"] = "todo"
    /\ IF ok
       THEN /\ memberships' = UpsertMemberships(memberships, call[k].rowsMemberships)
            /\ call' = [call EXCEPT ![k] = AfterUpsert([call[k] EXCEPT !.up["memberships"] = "ok"], now)]
       ELSE /\ call' = [call EXCEPT ![k] = UpsertFailed(call[k], "memberships", "bulkInsertMemberships", now, msg)]
            /\ UNCHANGED memberships
    /\ UNCHANGED <<now, upstream, upVersion, companies, payments, products, metric, hook>>

BulkInsertProducts(k, ok, msg) ==
    /\ call[k].up["products"] = "todo"
    /\ IF ok
       THEN /\ products' = UpsertProducts(products, call[k].rowsProducts)
            /\ call' = [call EXCEPT ![k] = AfterUpsert([call[k] EXCEPT !.up["products"] = "ok"], now)]
       ELSE /\ call' = [call EXCEPT ![k] = UpsertFailed(call[k], "products", "bulkInsertProducts", now, msg)]
            /\ UNCHANGED products
    /\ UNCHANGED <<now, upstream, upVersion, companies, payments, memberships, metric, hook>>

UpdateLastSync(k, ok, msg) ==
    /\ call[k].pc = "updating"
    /\ IF ok
       THEN /\ companies' = UpdateLastSyncRow(companies, call[k].companyId, call[k].lsTs)
            /\ call' = [call EXCEPT ![k] = Return([call[k] EXCEPT !.wroteLastSync = TRUE],
                                               SuccessResult(call[k], now))]
       ELSE /\ call' = [call EXCEPT ![k] = Catch(call[k], "updateLastSync", now, msg)]
            /\ UNCHANGED companies
    /\ UNCHANGED <<now, upstream, upVersion, payments, memberships, products, metric, hook>>

\* ------------------------------------------------------ the webhook route
\* POST /api/webhooks/whop.  A request carries a signature header (or none, or
\* an empty one), a body that parses or not, an event type, and the company id
\* in data.company.id, in data.companyId or nowhere.

\* The switch without the case 'membership.expired'.
HandledEventsWithoutExpired ==
    {"payment.succeeded", "payment.failed", "payment.refunded",
     "membership.created", "membership.updated", "membership.cancelled"}

\* The event types of the switch, each of which forces a sync.
HandledEvents ==
    {"payment.succeeded", "payment.failed", "payment.refunded",
     "membership.created", "membership.updated", "membership.cancelled",
     "membership.expired"}
\* The event types a request may carry: the seven of the switch and one more.
EventTypes ==
    {"payment.succeeded", "payment.failed", "payment.refunded",
     "membership.created", "membership.updated", "membership.cancelled",
     "membership.expired", "app.installed"}
Signatures == {"sig", "", Null}
CompanyPlaces == {"company.id", "companyId", Null}

\* No webhook request is being handled.
NoHook == [pc |-> "none", signature |-> Null, eventType |-> Null,
           companyId |-> Null, stored |-> FALSE, syncs |-> <<>>, status |-> 0]

\* if (!signature) return false; return true
verifyWebhookSignature(signature) == signature # Null /\ signature # ""

\* eventData?.company?.id, else eventData?.companyId, else null
HookCompanyId(place, c) == IF place = Null THEN Null ELSE c

\* The response of the handler.
HookResponse(h, status) == [h EXCEPT !.pc = "responded", !.status = status]

\* The handler up to its response or to the await of syncCompanyData.  syncs
\* lists the calls of syncCompanyData the handler makes, as <<companyId, force>>.
PostWebhook(k, signature, parses, eventType, place, c) ==
    /\ hook = NoHook
    /\ call[k].pc = "idle"
    /\ LET companyId == HookCompanyId(place, c)
           h == [NoHook EXCEPT !.signature = signature]
           parsed == [h EXCEPT !.eventType = eventType, !.companyId = companyId]
       IN  IF ~verifyWebhookSignature(signature)
           THEN hook' = HookResponse(h, 401) /\ call' = call
           ELSE IF ~parses
           THEN hook' = HookResponse(h, 500) /\ call' = call
           ELSE IF companyId = Null
           THEN hook' = HookResponse(parsed, 400) /\ call' = call
           ELSE IF eventType \in HandledEvents
           THEN /\ hook' = [parsed EXCEPT !.pc = "syncing", !.stored = TRUE,
                                          !.syncs = <<<<companyId, TRUE>>>>]
                /\ call' = [call EXCEPT ![k] = StartedCall(companyId, TRUE)]
           ELSE /\ hook' = HookResponse([parsed EXCEPT !.stored = TRUE], 200)
                /\ call' = call
    /\ UNCHANGED <<now, upstream, upVersion, companies, payments, memberships, products, metric>>

\* The awaited syncCompanyData has returned; the handler answers 200.
WebhookRespond(k) ==
    /\ hook.pc = "syncing"
    /\ call[k].pc = "returned"
    /\ hook' = HookResponse(hook, 200)
    /\ UNCHANGED <<now, upstream, upVersion, companies, payments, memberships, products, call, metric>>

\* The response has been sent; the next request may arrive.
WebhookDone(k) ==
    /\ hook.pc = "responded"
    /\ call[k].pc \in {"idle", "returned"}
    /\ \A n \in FetchNames : call[k].up[n] # "todo"
    /\ hook' = NoHook
    /\ call' = [call EXCEPT ![k] = IdleCall]
    /\ UNCHANGED <<now, upstream, upVersion, companies, payments, memberships, products, metric>>

\* ------------------------------------------------------- metrics engine
\* The calculator reads the cache through queries, none of which checks the
\* error the store returns: a failed query gives data: null or count: null.
\* An invocation is one step: it reads the cache as it is at one instant.
\* fails is the set of query sites that fail during the invocation.
Day == 24 * OneHour

\* subDays(date, n)
SubDays(t, n) == t - n * Day

\* The instant itself as the key of a group, the time of day not cut off.
InstantOf(t) == t

\* format(new Date(ts), 'yyyy-MM-dd'): the calendar day of an instant.
DayOf(t) == t \div Day

\* Math.ceil((endDate.getTime() - startDate.getTime()) / (1000*60*60*24))
DaysDiff(startDate, endDate) == (endDate - startDate + Day - 1) \div Day

\* new Date(year, month, 1), in a calendar of 30-day months.
MonthStart(t) == (t \div (30 * Day)) * (30 * Day)

\* A JavaScript number is kept exact, as a reduced fraction with a positive
\* denominator (floating-point rounding is not modelled).
Abs(x) == IF x < 0 THEN -x ELSE x
RECURSIVE GCD(_, _)
GCD(a, b) == IF b = 0 THEN a ELSE GCD(b, a % b)
Q(n, d) == LET g == GCD(Abs(n), d) IN [num |-> n \div g, den |-> d \div g]
Zero == Q(0, 1)
\* The first factor alone: the multiplication left out.
QMulDropped(a, b) == a

QMul(a, b) == Q(a.num * b.num, a.den * b.den)
QSub(a, b) == Q(a.num * b.den - b.num * a.den, a.den * b.den)
\* a / b for b > 0
QDiv(a, b) == Q(a.num * b.den, a.den * b.num)
\* (a - b) / b, a fraction and not a percentage.
ChangeAsFraction(a, b) == QDiv(QSub(a, b), b)

\* ((a - b) / b) * 100
PercentChange(a, b) == QMul(QDiv(QSub(a, b), b), Q(100, 1))
\* Math.round(v * 100) / 100
Round2(v) == Q((200 * v.num + v.den) \div (2 * v.den), 100)

\* count: null of a failed count query.
NoCount == -1
\* count || 0
OrZero(count) == IF count = NoCount THEN 0 ELSE count

\* The number of rows of a result, and the sum of their final_amount.
RECURSIVE CountRows(_, _)
CountRows(table, rows) ==
    IF rows = {} THEN 0
    ELSE LET r == CHOOSE x \in rows : TRUE
         IN  table[r] + CountRows(table, rows \ {r})
RECURSIVE SumAmount(_, _)
SumAmount(table, rows) ==
    IF rows = {} THEN 0
    ELSE LET r == CHOOSE x \in rows : TRUE
         IN  table[r] * r.final_amount + SumAmount(table, rows \ {r})

\* The orders in which the store may return the rows of a query that has no
\* order clause.
RowOrders(S) ==
    {s \in [1..Cardinality(S) -> S] : \A i, j \in DOMAIN s : s[i] = s[j] => i = j}

QuerySites == {"revenue.current", "revenue.previous", "members.current",
               "members.previous", "churn.active", "churn.churned",
               "series.payments", "growth.memberships", "top.payments",
               "top.products", "mrr.memberships", "segments.payments",
               "segments.memberships"}

\* .eq('company_id', companyId).eq('status', 'paid')
PaidPayments(c) ==
    {r \in BagToSet(payments) : r.company_id = c /\ r.status = "paid"}

\* .gte('paid_at', a).lte('paid_at', b): a null paid_at matches neither.
PaidBetween(c, a, b) ==
    {r \in PaidPayments(c) : r.paid_at # NullTime /\ r.paid_at >= a /\ r.paid_at <= b}

\* prevStartDate and prevEndDate: the range moved back by daysDiff days.
PreviousPeriod(startDate, endDate) ==
    LET daysDiff == DaysDiff(startDate, endDate)
    IN  <<SubDays(startDate, daysDiff), SubDays(endDate, daysDiff)>>

calculateRevenue(c, startDate, endDate, fails) ==
    LET currentRevenue ==
            IF "revenue.current" \in fails THEN 0
            ELSE SumAmount(payments, PaidBetween(c, startDate, endDate))
        prev == PreviousPeriod(startDate, endDate)
        previousRevenue ==
            IF "revenue.previous" \in fails THEN 0
            ELSE SumAmount(payments, PaidBetween(c, prev[1], prev[2]))
    IN  [ret |-> [value |-> Q(currentRevenue, 100),
                  change |-> IF previousRevenue > 0
                             THEN PercentChange(Q(currentRevenue, 1), Q(previousRevenue, 1))
                             ELSE Zero],
         errors |-> fails \cap {"revenue.current", "revenue.previous"}]

\* The active memberships of every company: .eq('company_id', companyId)
\* left out.
ActiveMembershipsOfAll(c) ==
    {r \in BagToSet(memberships) : r.valid /\ r.status \in {"active", "trialing"}}

\* .eq('valid', true).in('status', ['active', 'trialing'])
ActiveMemberships(c) ==
    {r \in BagToSet(memberships) :
        r.company_id = c /\ r.valid /\ r.status \in {"active", "trialing"}}

getActiveMemberCount(c, fails) ==
    LET currentCount ==
            IF "members.current" \in fails THEN NoCount
            ELSE CountRows(memberships, ActiveMemberships(c))
        thirtyDaysAgo == SubDays(now, 30)
        previousCount ==
            IF "members.previous" \in fails THEN NoCount
            ELSE CountRows(memberships,
                           {r \in ActiveMemberships(c) :
                               r.created_at # NullTime /\ r.created_at < thirtyDaysAgo})
    IN  [ret |-> [value |-> OrZero(currentCount),
                  change |-> IF previousCount # NoCount /\ previousCount > 0
                             THEN PercentChange(Q(OrZero(currentCount), 1),
                                                Q(previousCount, 1))
                             ELSE Zero],
         errors |-> fails \cap {"members.current", "members.previous"}]

calculateChurnRate(c, fails) ==
    LET thirtyDaysAgo == SubDays(now, 30)
        activeThirtyDaysAgo ==
            IF "churn.active" \in fails THEN NoCount
            ELSE CountRows(memberships,
                           {r \in BagToSet(memberships) :
                               /\ r.company_id = c /\ r.valid
                               /\ r.created_at # NullTime
                               /\ r.created_at < thirtyDaysAgo})
        churned ==
            IF "churn.churned" \in fails THEN NoCount
            ELSE CountRows(memberships,
                           {r \in BagToSet(memberships) :
                               /\ r.company_id = c /\ ~r.valid
                               /\ r.status \in {"cancelled", "expired"}
                               /\ r.expires_at # NullTime
                               /\ r.expires_at >= thirtyDaysAgo
                               /\ r.expires_at <= now})
    IN  [ret |-> IF activeThirtyDaysAgo = NoCount \/ activeThirtyDaysAgo = 0
                 THEN Zero
                 ELSE QMul(Q(OrZero(churned), activeThirtyDaysAgo), Q(100, 1)),
         errors |-> fails \cap {"churn.active", "churn.churned"}]

\* The points of the revenue series, by ascending date.
RECURSIVE RevenuePoints(_, _)
RevenuePoints(rows, dates) ==
    IF dates = {} THEN <<>>
    ELSE LET d == CHOOSE x \in dates : \A y \in dates : x <= y
         IN  <<[date |-> d,
                value |-> Round2(Q(SumAmount(payments,
                                             {r \in rows : DayOf(r.paid_at) = d}), 100))]>>
             \o RevenuePoints(rows, dates \ {d})

getRevenueTimeSeries(c, days, fails) ==
    LET data == {r \in PaidPayments(c) :
                    r.paid_at # NullTime /\ r.paid_at >= SubDays(now, days)}
    IN  [ret |-> IF "series.payments" \in fails \/ data = {} THEN <<>>
                 ELSE RevenuePoints(data, {DayOf(r.paid_at) : r \in data}),
         errors |-> fails \cap {"series.payments"}]

\* The points of the member growth series, by ascending date.
RECURSIVE GrowthPoints(_, _)
GrowthPoints(rows, dates) ==
    IF dates = {} THEN <<>>
    ELSE LET d == CHOOSE x \in dates : \A y \in dates : x <= y
         IN  <<[date |-> d,
                value |-> CountRows(memberships,
                                    {r \in rows : DayOf(r.created_at) = d})]>>
             \o GrowthPoints(rows, dates \ {d})

getMemberGrowthTimeSeries(c, days, fails) ==
    LET data == {r \in BagToSet(memberships) :
                    /\ r.company_id = c /\ r.created_at # NullTime
                    /\ r.created_at >= SubDays(now, days)}
    IN  [ret |-> IF "growth.memberships" \in fails \/ data = {} THEN <<>>
                 ELSE GrowthPoints(data, {DayOf(r.created_at) : r \in data}),
         errors |-> fails \cap {"growth.memberships"}]

\* .eq('status', 'paid').not('product_id', 'is', null)
ProductPayments(c) == {r \in PaidPayments(c) : r.product_id # Null}

\* Object.keys(grouped)
TopProductIds(c) == {r.product_id : r \in ProductPayments(c)}

\* productMap.get(productId) || 'Unknown Product'; the products query has no
\* company filter.
ProductName(id, fails) ==
    LET rows == {p \in BagToSet(products) : p.id = id}
    IN  IF "top.products" \in fails \/ rows = {} THEN "Unknown Product"
        ELSE (CHOOSE p \in rows : TRUE).name

\* .sort((a, b) => b.revenue - a.revenue), a stable sort of the entries.
RECURSIVE SortByRevenue(_)
SortByRevenue(entries) ==
    IF entries = <<>> THEN <<>>
    ELSE LET i == CHOOSE x \in DOMAIN entries :
                    \A y \in DOMAIN entries :
                        \/ entries[y].revenue.num * entries[x].revenue.den
                              < entries[x].revenue.num * entries[y].revenue.den
                        \/ /\ entries[y].revenue = entries[x].revenue
                           /\ x <= y
             rest == [j \in 1..(Len(entries) - 1) |->
                         IF j < i THEN entries[j] ELSE entries[j + 1]]
         IN  <<entries[i]>> \o SortByRevenue(rest)

\* ord: the order of the product ids in grouped, that of their first payment
\* in the result of the payments query.
getTopProducts(c, limit, fails, ord) ==
    LET rows == ProductPayments(c)
        entries == [i \in DOMAIN ord |->
                      LET its == {r \in rows : r.product_id = ord[i]}
                      IN  [productId |-> ord[i],
                           productName |-> ProductName(ord[i], fails),
                           revenue |-> Round2(Q(SumAmount(payments, its), 100)),
                           count |-> CountRows(payments, its)]]
        sorted == SortByRevenue(entries)
    IN  IF "top.payments" \in fails \/ rows = {}
        THEN [ret |-> <<>>, errors |-> fails \cap {"top.payments"}]
        ELSE [ret |-> SubSeq(sorted, 1, IF Len(sorted) < limit THEN Len(sorted) ELSE limit),
              errors |-> fails \cap {"top.products"}]

\* The value calculateARPU returns, from the results of its four awaited
\* calls.
ArpuResult(revenue, members, prevRevenue, prevMembers) ==
    LET arpu == IF members.value > 0
                THEN QDiv(revenue.value, Q(members.value, 1)) ELSE Zero
        prevARPU == IF prevMembers.value > 0
                    THEN QDiv(prevRevenue.value, Q(prevMembers.value, 1))
                    ELSE Zero
    IN  [value |-> arpu,
         change |-> IF prevARPU.num > 0 THEN PercentChange(arpu, prevARPU)
                    ELSE Zero]

\* calculateARPU when the cache does not change between its awaited calls.
calculateARPU(c, startDate, endDate, fails) ==
    LET revenue == calculateRevenue(c, startDate, endDate, fails)
        members == getActiveMemberCount(c, fails)
        daysDiff == DaysDiff(startDate, endDate)
        prevRevenue == calculateRevenue(c, SubDays(startDate, daysDiff),
                                        SubDays(endDate, daysDiff), fails)
        prevMembers == getActiveMemberCount(c, fails)
    IN  [ret |-> ArpuResult(revenue.ret, members.ret, prevRevenue.ret,
                            prevMembers.ret),
         errors |-> revenue.errors \cup members.errors]

calculateMRR(c, fails) ==
    LET data == ActiveMemberships(c)
        revenue == calculateRevenue(c, SubDays(now, 30), now, fails)
    IN  IF "mrr.memberships" \in fails \/ data = {}
        THEN [ret |-> [value |-> Zero, change |-> Zero],
              errors |-> fails \cap {"mrr.memberships"}]
        ELSE [ret |-> [value |-> QMul(QDiv(revenue.ret.value, Q(30, 1)), Q(30, 1)),
                       change |-> revenue.ret.change],
              errors |-> revenue.errors]

calculateCLV(c, fails) ==
    LET arpu == calculateARPU(c, SubDays(now, 90), now, fails)
        churnRate == calculateChurnRate(c, fails)
    IN  [ret |-> [value |-> IF churnRate.ret.num > 0
                            THEN QDiv(arpu.ret.value, QDiv(churnRate.ret, Q(100, 1)))
                            ELSE QMul(arpu.ret.value, Q(12, 1)),
                  change |-> arpu.ret.change],
         errors |-> arpu.errors \cup churnRate.errors]

Segment(name, count, total, color) ==
    [segment |-> name, count |-> count,
     percentage |-> IF total > 0 THEN Q(count * 100, total) ELSE Zero,
     color |-> color]

Segments(new, active, atRisk, churned, total) ==
    <<Segment("new", new, total, "#10b981"),
      Segment("active", active, total, "#3b82f6"),
      Segment("at_risk", atRisk, total, "#f59e0b"),
      Segment("churned", churned, total, "#ef4444")>>

\* [...new Set(payments.map((p) => p.user_id).filter(Boolean))]
UniqueCustomerIds(c) == {r.user_id : r \in PaidPayments(c)} \ {Null}

\* .eq('company_id', companyId).in('user_id', uniqueCustomerIds)
CustomerMemberships(c) ==
    {m \in BagToSet(memberships) :
        m.company_id = c /\ m.user_id \in UniqueCustomerIds(c)}

\* customerMemberships.forEach: the membership kept for each user, the first
\* of the result unless a later one has a greater created_at.
RECURSIVE CustomersByUserId(_, _)
CustomersByUserId(ms, acc) ==
    IF ms = <<>> THEN acc
    ELSE LET m == Head(ms)
             set == /\ m.user_id # Null
                    /\ \/ m.user_id \notin DOMAIN acc
                       \/ /\ m.created_at # NullTime
                          /\ acc[m.user_id].created_at # NullTime
                          /\ m.created_at > acc[m.user_id].created_at
         IN  CustomersByUserId(Tail(ms),
                 IF set THEN [u \in DOMAIN acc \cup {m.user_id} |->
                                IF u = m.user_id THEN m ELSE acc[u]]
                 ELSE acc)

\* mord: the order of the rows in the result of the memberships query.
getCustomerSegmentation(c, fails, mord) ==
    LET thirtyDaysAgo == SubDays(now, 30)
        total == Cardinality(UniqueCustomerIds(c))
        byUser == CustomersByUserId(mord, <<>>)
        uniqueCustomers == {byUser[u] : u \in DOMAIN byUser}
        newCustomers ==
            Cardinality({m \in uniqueCustomers :
                m.created_at # NullTime /\ m.created_at > thirtyDaysAgo /\ m.valid})
        activeCustomers ==
            Cardinality({m \in uniqueCustomers :
                /\ m.valid /\ m.status = "active"
                /\ m.created_at # NullTime /\ m.created_at <= thirtyDaysAgo})
        atRiskCustomers ==
            Cardinality({m \in uniqueCustomers :
                /\ m.valid /\ m.expires_at # NullTime
                /\ m.expires_at > now /\ m.expires_at < SubDays(now, -7)})
        churnedCustomers ==
            Cardinality({m \in uniqueCustomers :
                ~m.valid \/ m.status = "cancelled" \/ m.status = "expired"})
    IN  IF "segments.payments" \in fails \/ PaidPayments(c) = {}
        THEN [ret |-> Segments(0, 0, 0, 0, 0),
              errors |-> fails \cap {"segments.payments"}]
        ELSE IF "segments.memberships" \in fails \/ CustomerMemberships(c) = {}
        THEN [ret |-> Segments(0, 0, 0, 0, 0),
              errors |-> fails \cap {"segments.memberships"}]
        ELSE [ret |-> Segments(newCustomers, activeCustomers, atRiskCustomers,
                               churnedCustomers, total),
              errors |-> {}]

\* startDate and endDate are NullTime when the caller leaves them out.
getDashboardSummary(c, startDate, endDate, fails, ord, mord) ==
    LET defaultEndDate == IF endDate = NullTime THEN now ELSE endDate
        defaultStartDate == IF startDate = NullTime THEN MonthStart(defaultEndDate)
                            ELSE startDate
        daysDiff == DaysDiff(defaultStartDate, defaultEndDate)
        revenue == calculateRevenue(c, defaultStartDate, defaultEndDate, fails)
        memberCount == getActiveMemberCount(c, fails)
        churnRate == calculateChurnRate(c, fails)
        arpu == calculateARPU(c, defaultStartDate, defaultEndDate, fails)
        mrr == calculateMRR(c, fails)
        clv == calculateCLV(c, fails)
        revenueTimeSeries ==
            getRevenueTimeSeries(c, IF daysDiff > 365 THEN 365 ELSE daysDiff, fails)
        topProducts == getTopProducts(c, 5, fails, ord)
        customerSegments == getCustomerSegmentation(c, fails, mord)
    IN  [ret |-> [revenue |-> revenue.ret,
                  memberCount |-> memberCount.ret,
                  churnRate |-> churnRate.ret,
                  arpu |-> arpu.ret,
                  mrr |-> mrr.ret,
                  clv |-> clv.ret,
                  revenueTimeSeries |-> revenueTimeSeries.ret,
                  topProducts |-> topProducts.ret,
                  customerSegments |-> customerSegments.ret,
                  generatedAt |-> now],
         errors |-> revenue.errors \cup memberCount.errors \cup churnRate.errors
                    \cup arpu.errors \cup mrr.errors \cup clv.errors
                    \cup revenueTimeSeries.errors \cup topProducts.errors
                    \cup customerSegments.errors]

\* No calculator function has been called.
NoMetric == [op |-> Null, companyId |-> Null, outcome |-> Null, errors |-> {}]

\* The function, called with args, returns r.ret to its caller; errors records
\* the queries that failed while it ran.
MetricReturned(op, c, args, r) ==
    [op |-> op, companyId |-> c, args |-> args, outcome |-> "returned",
     ret |-> r.ret, errors |-> r.errors]

\* The arguments of a function that takes the company id only.
NoArgs == <<>>

\* The failures of one invocation: subsets of the sites it may execute.
FailureSets(sites) == {f \in SUBSET sites : Cardinality(f) <= MaxFailures}

\* The date ranges callers ask for: the last 30 days, the last 7 days, the
\* last 7 days and a half, and the single instant ten days ago.
DateRanges == {<<SubDays(now, 30), now>>, <<SubDays(now, 7), now>>,
               <<SubDays(now, 7) - 12 * OneHour, now>>,
               <<SubDays(now, 10), SubDays(now, 10)>>}

\* The analytics route passes the dates of the request, or none.
SummaryRanges == {<<NullTime, NullTime>>, <<SubDays(now, 30), now>>}

\* The limits callers ask of getTopProducts (5 when left out) and the days
\* they ask of the time series (30 when left out).
Limits == {1, 2, 5}
SeriesDays == {7, 30, 60}

\* One invocation of each exported function of the calculator, the
\* invocations one after the other.
CalculateRevenue(c) ==
    /\ metric = NoMetric
    /\ \E range \in DateRanges :
       \E fails \in FailureSets({"revenue.current", "revenue.previous"}) :
          metric' = MetricReturned("calculateRevenue", c,
                        [startDate |-> range[1], endDate |-> range[2]],
                        calculateRevenue(c, range[1], range[2], fails))
    /\ UNCHANGED <<now, upstream, upVersion, companies, payments, memberships, products, call, hook>>

GetActiveMemberCount(c) ==
    /\ metric = NoMetric
    /\ \E fails \in FailureSets({"members.current", "members.previous"}) :
          metric' = MetricReturned("getActiveMemberCount", c, NoArgs,
                        getActiveMemberCount(c, fails))
    /\ UNCHANGED <<now, upstream, upVersion, companies, payments, memberships, products, call, hook>>

CalculateChurnRate(c) ==
    /\ metric = NoMetric
    /\ \E fails \in FailureSets({"churn.active", "churn.churned"}) :
          metric' = MetricReturned("calculateChurnRate", c, NoArgs,
                        calculateChurnRate(c, fails))
    /\ UNCHANGED <<now, upstream, upVersion, companies, payments, memberships, products, call, hook>>

GetRevenueTimeSeries(c) ==
    /\ metric = NoMetric
    /\ \E days \in SeriesDays :
       \E fails \in FailureSets({"series.payments"}) :
          metric' = MetricReturned("getRevenueTimeSeries", c, [days |-> days],
                        getRevenueTimeSeries(c, days, fails))
    /\ UNCHANGED <<now, upstream, upVersion, companies, payments, memberships, products, call, hook>>

GetMemberGrowthTimeSeries(c) ==
    /\ metric = NoMetric
    /\ \E days \in SeriesDays :
       \E fails \in FailureSets({"growth.memberships"}) :
          metric' = MetricReturned("getMemberGrowthTimeSeries", c, [days |-> days],
                        getMemberGrowthTimeSeries(c, days, fails))
    /\ UNCHANGED <<now, upstream, upVersion, companies, payments, memberships, products, call, hook>>

GetTopProducts(c) ==
    /\ metric = NoMetric
    /\ \E limit \in Limits :
       \E fails \in FailureSets({"top.payments", "top.products"}) :
       \E ord \in RowOrders(TopProductIds(c)) :
          metric' = MetricReturned("getTopProducts", c, [limit |-> limit],
                        getTopProducts(c, limit, fails, ord))
    /\ UNCHANGED <<now, upstream, upVersion, companies, payments, memberships, products, call, hook>>

CalculateARPU(c) ==
    /\ metric = NoMetric
    /\ \E range \in DateRanges :
       \E fails \in FailureSets({"revenue.current", "revenue.previous",
                                 "members.current", "members.previous"}) :
          metric' = MetricReturned("calculateARPU", c,
                        [startDate |-> range[1], endDate |-> range[2]],
                        calculateARPU(c, range[1], range[2], fails))
    /\ UNCHANGED <<now, upstream, upVersion, companies, payments, memberships, products, call, hook>>

CalculateMRR(c) ==
    /\ metric = NoMetric
    /\ \E fails \in FailureSets({"mrr.memberships", "revenue.current",
                                 "revenue.previous"}) :
          metric' = MetricReturned("calculateMRR", c, NoArgs,
                                   calculateMRR(c, fails))
    /\ UNCHANGED <<now, upstream, upVersion, companies, payments, memberships, products, call, hook>>

CalculateCLV(c) ==
    /\ metric = NoMetric
    /\ \E fails \in FailureSets({"revenue.current", "revenue.previous",
                                 "members.current", "members.previous",
                                 "churn.active", "churn.churned"}) :
          metric' = MetricReturned("calculateCLV", c, NoArgs,
                                   calculateCLV(c, fails))
    /\ UNCHANGED <<now, upstream, upVersion, companies, payments, memberships, products, call, hook>>

GetCustomerSegmentation(c) ==
    /\ metric = NoMetric
    /\ \E fails \in FailureSets({"segments.payments", "segments.memberships"}) :
       \E mord \in RowOrders(CustomerMemberships(c)) :
          metric' = MetricReturned("getCustomerSegmentation", c, NoArgs,
                        getCustomerSegmentation(c, fails, mord))
    /\ UNCHANGED <<now, upstream, upVersion, companies, payments, memberships, products, call, hook>>

\* The analytics route calls it with the dates of the request, or without.
GetDashboardSummary(c) ==
    /\ metric = NoMetric
    /\ \E range \in SummaryRanges :
       \E fails \in FailureSets(QuerySites \ {"growth.memberships"}) :
       \E ord \in RowOrders(TopProductIds(c)) :
       \E mord \in RowOrders(CustomerMemberships(c)) :
          metric' = MetricReturned("getDashboardSummary", c,
                        [startDate |-> range[1], endDate |-> range[2]],
                        getDashboardSummary(c, range[1], range[2], fails, ord, mord))
    /\ UNCHANGED <<now, upstream, upVersion, companies, payments, memberships, products, call, hook>>

\* needsSync: !lastSync || lastSync < oneHourAgo
NeedsSync(lastSync, t) == lastSync = NullTime \/ lastSync < t - OneHour

\* getSyncStatus(companyId): the stored last sync, whether a sync is needed
\* and the whole minutes since the last sync (a tick is 30 minutes); it throws
\* when getLastSync does.
GetSyncStatus(c) ==
    /\ metric = NoMetric
    /\ \E ok \in BOOLEAN :
          LET got == LastSyncLookup(companies, c, ok)
          IN  metric' =
                 IF got.threw
                 THEN [op |-> "getSyncStatus", companyId |-> c, args |-> NoArgs,
                       outcome |-> "raised", errors |-> {"getLastSync"}]
                 ELSE MetricReturned("getSyncStatus", c, NoArgs,
                         [ret |-> [lastSync |-> got.value,
                                   needsSync |-> NeedsSync(got.value, now),
                                   minutesSinceSync |->
                                       IF got.value = NullTime THEN NoCount
                                       ELSE (now - got.value) * 30],
                          errors |-> {}])
    /\ UNCHANGED <<now, upstream, upVersion, companies, payments, memberships, products, call, hook>>

\* The caller has taken the value returned, or caught what was thrown.
ReleaseMetric ==
    /\ metric.outcome \in {"returned", "raised"}
    /\ metric' = NoMetric
    /\ UNCHANGED <<now, upstream, upVersion, companies, payments, memberships, products, call, hook>>

\* ------------------------------------------------------------ environment
Tick ==
    /\ now < MaxTime
    /\ now' = now + 1
    /\ UNCHANGED <<upstream, upVersion, companies, payments, memberships, products, call, metric, hook>>

UpstreamChange(c, d) ==
    /\ upVersion < MaxUpstreamChanges
    /\ d # upstream[c]
    /\ upstream' = [upstream EXCEPT ![c] = d]
    /\ upVersion' = upVersion + 1
    /\ UNCHANGED <<now, companies, payments, memberships, products, call, metric, hook>>

\* -------------------------------------------------------- initial states
\* The company that is synced, "c1", has never been synced (no row, or a row
\* with a null last_sync) or was synced at some earlier instant, when the
\* upstream held DataA; "c2" has never been synced.
SyncedBefore(t) ==
    /\ companies = [c \in Companies |->
                      IF c = "c1" THEN [exists |-> TRUE, last_sync |-> t]
                      ELSE [exists |-> FALSE, last_sync |-> NullTime]]
    /\ payments = SetToBag(PaymentsFormatted("c1", DataA.receipts))
    /\ memberships = SetToBag(MembershipsFormatted("c1", DataA.members))
    /\ products = SetToBag(ProductsFormatted("c1", ExtractProducts(DataA.receipts), t))

NeverSynced(rowExists) ==
    /\ companies = [c \in Companies |->
                      [exists |-> (c = "c1" /\ rowExists), last_sync |-> NullTime]]
    /\ payments = EmptyBag
    /\ memberships = EmptyBag
    /\ products = EmptyBag

Init ==
    /\ now = StartTime
    /\ upstream \in {[c \in Companies |-> d] : d \in UpstreamStates}
    /\ upVersion = 0
    /\ \/ \E t \in 0..StartTime : SyncedBefore(t)
       \/ \E e \in BOOLEAN : NeverSynced(e)
    /\ call = [k \in Calls |-> IdleCall]
    /\ metric = NoMetric
    /\ hook = NoHook

\* The initial states of the overlapping invocations: a company never synced,
\* or synced an hour or more ago.
InitRace ==
    /\ now = StartTime
    /\ upstream \in {[c \in Companies |-> d] : d \in {DataA, DataB}}
    /\ upVersion = 0
    /\ \/ SyncedBefore(0)
       \/ NeverSynced(FALSE)
    /\ call = [k \in Calls |-> IdleCall]
    /\ metric = NoMetric
    /\ hook = NoHook

\* One step of invocation k; ok tells whether the remote operation succeeds.
SyncStep(k, ok) ==
    \/ \E msg \in StoreErrors : GetLastSync(k, ok, msg)
    \/ \E msg \in StoreErrors : UpsertCompany(k, ok, msg)
    \/ FetchAllPayments(k, ok)
    \/ FetchAllMemberships(k, ok)
    \/ FetchAllProducts(k, ok)
    \/ \E msg \in StoreErrors : BulkInsertPayments(k, ok, msg)
    \/ \E msg \in StoreErrors : BulkInsertMemberships(k, ok, msg)
    \/ \E msg \in StoreErrors : BulkInsertProducts(k, ok, msg)
    \/ \E msg \in StoreErrors : UpdateLastSync(k, ok, msg)

Environment ==
    \/ Tick
    \/ \E c \in SyncedCompanies, d \in UpstreamStates : UpstreamChange(c, d)

\* Invocations one after the other, every remote operation may fail.
Next ==
    \/ \E c \in SyncedCompanies, force \in BOOLEAN : StartSync("k1", c, force)
    \/ \E ok \in BOOLEAN : SyncStep("k1", ok)
    \/ Release("k1")
    \/ Environment

Spec == Init /\ [][Next]_vars

\* Two invocations that may overlap, no remote operation fails; the upstream
\* data may change to DataB (a refund of p1 and a new receipt, p2, arrive).
NextRace ==
    \/ \E k \in Calls, c \in SyncedCompanies, force \in BOOLEAN : StartSync(k, c, force)
    \/ \E k \in Calls : SyncStep(k, TRUE)
    \/ Tick
    \/ \E c \in SyncedCompanies : UpstreamChange(c, DataB)

SpecRace == InitRace /\ [][NextRace]_vars

\* Webhook requests one after the other, each handled to its response; every
\* remote operation of the sync may fail.
NextWebhook ==
    \/ \E signature \in Signatures, parses \in BOOLEAN, eventType \in EventTypes,
          place \in CompanyPlaces, c \in SyncedCompanies :
          PostWebhook("k1", signature, parses, eventType, place, c)
    \/ \E ok \in BOOLEAN : SyncStep("k1", ok)
    \/ WebhookRespond("k1")
    \/ WebhookDone("k1")

SpecWebhook == Init /\ [][NextWebhook]_vars

\* The status of the company is asked for between syncs that are not forced,
\* while time passes; no remote operation of the sync fails.
NextStatus ==
    \/ \E c \in SyncedCompanies : GetSyncStatus(c)
    \/ ReleaseMetric
    \/ \E c \in SyncedCompanies : StartSync("k1", c, FALSE)
    \/ SyncStep("k1", TRUE)
    \/ Release("k1")
    \/ Tick

SpecStatus == Init /\ [][NextStatus]_vars

\* ---------------------------------------------- the calculator on a cache
\* The instant of the invocations, and upstream records around it: a payment
\* of 19.99 ten days before, one of 10.00 forty days before, a refunded one
\* five days before; a member at risk, a churned one, a trialing one and a
\* second, expired, membership of the first user.
MetricsNow == 100 * Day
RA == [id |-> "p1", status |-> "succeeded", finalAmount |-> 19990,
       accessPass |-> "prodA", accessPassName |-> "Alpha", user |-> "u1",
       createdAt |-> SubDays(MetricsNow, 10), paidAt |-> SubDays(MetricsNow, 10)]
RB == [id |-> "p2", status |-> "succeeded", finalAmount |-> 10000,
       accessPass |-> "prodB", accessPassName |-> Null, user |-> "u2",
       createdAt |-> SubDays(MetricsNow, 40), paidAt |-> SubDays(MetricsNow, 40)]
RC == [id |-> "p3", status |-> "refunded", finalAmount |-> 5000,
       accessPass |-> "prodA", accessPassName |-> "Alpha", user |-> "u1",
       createdAt |-> SubDays(MetricsNow, 5), paidAt |-> SubDays(MetricsNow, 5)]
\* A second payment of the second product, which brings it level with the
\* first; it is paid on the calendar day of p1, an hour later.
RD == [id |-> "p4", status |-> "succeeded", finalAmount |-> 9990,
       accessPass |-> "prodB", accessPassName |-> Null, user |-> "u2",
       createdAt |-> SubDays(MetricsNow, 10) + OneHour,
       paidAt |-> SubDays(MetricsNow, 10) + OneHour]
RZ == [id |-> "p1", status |-> "succeeded", finalAmount |-> 7000,
       accessPass |-> "prodC", accessPassName |-> "Gamma", user |-> "u9",
       createdAt |-> SubDays(MetricsNow, 3), paidAt |-> SubDays(MetricsNow, 3)]
MA == [id |-> "m1", status |-> "active", valid |-> TRUE, user |-> "u1",
       accessPass |-> "prodA", createdAt |-> SubDays(MetricsNow, 40),
       expiresAt |-> SubDays(MetricsNow, -3)]
MB == [id |-> "m2", status |-> "cancelled", valid |-> FALSE, user |-> "u2",
       accessPass |-> "prodB", createdAt |-> SubDays(MetricsNow, 50),
       expiresAt |-> SubDays(MetricsNow, 5)]
MC == [id |-> "m3", status |-> "trialing", valid |-> TRUE, user |-> "u3",
       accessPass |-> Null, createdAt |-> SubDays(MetricsNow, 10), expiresAt |-> 0]
MD == [id |-> "m4", status |-> "expired", valid |-> FALSE, user |-> "u1",
       accessPass |-> "prodA", createdAt |-> SubDays(MetricsNow, 40),
       expiresAt |-> SubDays(MetricsNow, 35)]
\* A member record that has an id and no status.
MN == [id |-> "m5", status |-> Null, valid |-> FALSE, user |-> "u4",
       accessPass |-> Null, createdAt |-> SubDays(MetricsNow, 2), expiresAt |-> 0]
MZ == [id |-> "m9", status |-> "active", valid |-> TRUE, user |-> "u9",
       accessPass |-> "prodC", createdAt |-> SubDays(MetricsNow, 3), expiresAt |-> 0]
MetricReceipts == {RA, RB, RC, RD}
MetricMembers == {MA, MB, MC, MD}
DataOther == [receipts |-> {RZ}, members |-> {MZ}]

\* The cache an hour after both companies were synced: "c1" holds any part of
\* the records above, "c2" nothing or its own payment and member.
InitMetrics ==
    /\ now = MetricsNow
    /\ \E rs \in SUBSET MetricReceipts, ms \in SUBSET MetricMembers,
          other \in {DataEmpty, DataOther} :
          /\ upstream = [c \in Companies |->
                           IF c = "c1" THEN [receipts |-> rs, members |-> ms]
                           ELSE other]
          /\ payments = SetToBag(PaymentsFormatted("c1", rs)
                                 \cup PaymentsFormatted("c2", other.receipts))
          /\ memberships = SetToBag(MembershipsFormatted("c1", ms)
                                    \cup MembershipsFormatted("c2", other.members))
          /\ products = SetToBag(
                 ProductsFormatted("c1", ExtractProducts(rs), MetricsNow - OneHour)
                 \cup ProductsFormatted("c2", ExtractProducts(other.receipts),
                                        MetricsNow - OneHour))
    /\ upVersion = 0
    /\ companies = [c \in Companies |->
                      [exists |-> TRUE, last_sync |-> MetricsNow - OneHour]]
    /\ call = [k \in Calls |-> IdleCall]
    /\ metric = NoMetric
    /\ hook = NoHook

NextMetrics ==
    \/ \E c \in Companies : CalculateRevenue(c)
    \/ \E c \in Companies : GetActiveMemberCount(c)
    \/ \E c \in Companies : CalculateChurnRate(c)
    \/ \E c \in Companies : GetRevenueTimeSeries(c)
    \/ \E c \in Companies : GetMemberGrowthTimeSeries(c)
    \/ \E c \in Companies : GetTopProducts(c)
    \/ \E c \in Companies : CalculateARPU(c)
    \/ \E c \in Companies : CalculateMRR(c)
    \/ \E c \in Companies : CalculateCLV(c)
    \/ \E c \in Companies : GetCustomerSegmentation(c)
    \/ \E c \in Companies : GetDashboardSummary(c)
    \/ ReleaseMetric

SpecMetrics == InitMetrics /\ [][NextMetrics]_vars

\* ----------------------------------------------- the churn rate on a cache
\* A second churned member: a membership that expired ten days before.
ME == [id |-> "m6", status |-> "expired", valid |-> FALSE, user |-> "u5",
       accessPass |-> "prodB", createdAt |-> SubDays(MetricsNow, 45),
       expiresAt |-> SubDays(MetricsNow, 10)]
ChurnMembers == {MA, MB, MC, MD, ME}

\* The cache an hour after both companies were synced: "c1" holds the
\* memberships of any part of the members above, "c2" nothing or its own
\* member.
InitChurn ==
    /\ now = MetricsNow
    /\ \E ms \in SUBSET ChurnMembers, other \in {DataEmpty, DataOther} :
          /\ upstream = [c \in Companies |->
                           IF c = "c1" THEN [receipts |-> {}, members |-> ms]
                           ELSE other]
          /\ payments = SetToBag(PaymentsFormatted("c2", other.receipts))
          /\ memberships = SetToBag(MembershipsFormatted("c1", ms)
                                    \cup MembershipsFormatted("c2", other.members))
          /\ products = SetToBag(
                 ProductsFormatted("c2", ExtractProducts(other.receipts),
                                   MetricsNow - OneHour))
    /\ upVersion = 0
    /\ companies = [c \in Companies |->
                      [exists |-> TRUE, last_sync |-> MetricsNow - OneHour]]
    /\ call = [k \in Calls |-> IdleCall]
    /\ metric = NoMetric
    /\ hook = NoHook

NextChurn ==
    \/ \E c \in Companies : CalculateChurnRate(c)
    \/ ReleaseMetric

SpecChurn == InitChurn /\ [][NextChurn]_vars

\* ------------------------------------- the calculator while a sync is writing
\* calculateARPU awaits four calls one after the other; between two of them a
\* sync of the same company may write the cache. The invocation in flight is
\* kept in metric with outcome "running", pc the call it awaits next, and the
\* results of the calls that have returned.
NotRead == [value |-> 0, change |-> Zero]

ArpuAwaiting(pc) ==
    /\ metric.op = "calculateARPU"
    /\ metric.outcome = "running"
    /\ metric.pc = pc

\* calculateARPU(companyId, startDate, endDate) is called.
CallARPU(c) ==
    /\ metric = NoMetric
    /\ \E range \in DateRanges :
          metric' = [op |-> "calculateARPU", companyId |-> c,
                     args |-> [startDate |-> range[1], endDate |-> range[2]],
                     outcome |-> "running", pc |-> "revenue",
                     revenue |-> NotRead, members |-> NotRead,
                     prevRevenue |-> NotRead]
    /\ UNCHANGED <<now, upstream, upVersion, companies, payments, memberships, products, call, hook>>

\* const revenue = await calculateRevenue(companyId, startDate, endDate)
ArpuRevenue ==
    /\ ArpuAwaiting("revenue")
    /\ metric' = [metric EXCEPT
                    !.revenue = calculateRevenue(metric.companyId, metric.args.startDate,
                                                 metric.args.endDate, {}).ret,
                    !.pc = "members"]
    /\ UNCHANGED <<now, upstream, upVersion, companies, payments, memberships, products, call, hook>>

\* const members = await getActiveMemberCount(companyId)
ArpuMembers ==
    /\ ArpuAwaiting("members")
    /\ metric' = [metric EXCEPT
                    !.members = getActiveMemberCount(metric.companyId, {}).ret,
                    !.pc = "prevRevenue"]
    /\ UNCHANGED <<now, upstream, upVersion, companies, payments, memberships, products, call, hook>>

\* const prevRevenue = await calculateRevenue(companyId, prevStart, prevEnd)
ArpuPrevRevenue ==
    /\ ArpuAwaiting("prevRevenue")
    /\ LET daysDiff == DaysDiff(metric.args.startDate, metric.args.endDate)
       IN  metric' = [metric EXCEPT
                        !.prevRevenue =
                            calculateRevenue(metric.companyId,
                                             SubDays(metric.args.startDate, daysDiff),
                                             SubDays(metric.args.endDate, daysDiff),
                                             {}).ret,
                        !.pc = "prevMembers"]
    /\ UNCHANGED <<now, upstream, upVersion, companies, payments, memberships, products, call, hook>>

\* const prevMembers = await getActiveMemberCount(companyId), and the return.
\* denominators keeps the two member counts the ARPUs were divided by.
ArpuPrevMembers ==
    /\ ArpuAwaiting("prevMembers")
    /\ LET prevMembers == getActiveMemberCount(metric.companyId, {}).ret
       IN  metric' = [op |-> "calculateARPU", companyId |-> metric.companyId,
                      args |-> metric.args, outcome |-> "returned",
                      ret |-> ArpuResult(metric.revenue, metric.members,
                                         metric.prevRevenue, prevMembers),
                      errors |-> {},
                      denominators |-> <<metric.members.value, prevMembers.value>>]
    /\ UNCHANGED <<now, upstream, upVersion, companies, payments, memberships, products, call, hook>>

\* A receipt of the other company for an access pass whose id, prodA, is also
\* carried by receipts of the first company.
RY == [id |-> "p9", status |-> "succeeded", finalAmount |-> 7000,
       accessPass |-> "prodA", accessPassName |-> "Beta", user |-> "u9",
       createdAt |-> SubDays(MetricsNow, 3), paidAt |-> SubDays(MetricsNow, 3)]
DataShared == [receipts |-> {RY}, members |-> {}]

\* A company that was never synced; upstream it has any of two receipts and
\* any of three members, one of them without a status.  The other company has
\* no data, or was synced a day ago and has one receipt.
InitDashboard ==
    /\ now = MetricsNow
    /\ \E rs \in SUBSET {RA, RB}, ms \in SUBSET {MA, MC, MN},
          other \in {DataEmpty, DataShared} :
          /\ upstream = [c \in Companies |->
                           IF c = "c1" THEN [receipts |-> rs, members |-> ms]
                           ELSE other]
          /\ companies = [c \in Companies |->
                            IF c = "c1" \/ other = DataEmpty
                            THEN [exists |-> FALSE, last_sync |-> NullTime]
                            ELSE [exists |-> TRUE, last_sync |-> MetricsNow - Day]]
          /\ payments = SetToBag(PaymentsFormatted("c2", other.receipts))
          /\ memberships = SetToBag(MembershipsFormatted("c2", other.members))
          /\ products = SetToBag(ProductsFormatted("c2", ExtractProducts(other.receipts),
                                                   MetricsNow - Day))
    /\ upVersion = 0
    /\ call = [k \in Calls |-> IdleCall]
    /\ metric = NoMetric
    /\ hook = NoHook

\* One sync of the company, no remote operation fails, and the calculator
\* reading the cache before, while and after the sync writes it; the summary
\* is that of the other company.
NextDashboard ==
    \/ \E c \in SyncedCompanies, force \in BOOLEAN : StartSync("k1", c, force)
    \/ SyncStep("k1", TRUE)
    \/ \E c \in SyncedCompanies : CalculateRevenue(c)
    \/ \E c \in SyncedCompanies : CallARPU(c)
    \/ ArpuRevenue
    \/ ArpuMembers
    \/ ArpuPrevRevenue
    \/ ArpuPrevMembers
    \/ \E c \in Companies \ SyncedCompanies : GetDashboardSummary(c)
    \/ ReleaseMetric

SpecDashboard == InitDashboard /\ [][NextDashboard]_vars

\* ------------------------------------------------------------------ claims
AllOps == {"getLastSync", "upsertCompany", "fetchAllPayments",
           "fetchAllMemberships", "fetchAllProducts", "bulkInsertPayments",
           "bulkInsertMemberships", "bulkInsertProducts", "updateLastSync"}
FetchOps == {"fetchAllPayments", "fetchAllMemberships", "fetchAllProducts"}

\* Invocation k takes the step that ends await getLastSync without a throw.
LookedUp(k) ==
    /\ call[k].pc = "getLastSync"
    /\ call'[k].pc # "getLastSync"
    /\ call'[k].failed = Null

\* C1: when the stored last-sync timestamp is less than one hour before the
\* current time, syncCompanyData with force=false fetches nothing upstream and
\* returns success=true, the three counts 0 and syncedAt equal to the stored
\* timestamp.
C1_FreshSyncIsSkipped ==
    [][\A k \in Calls :
         LET stored == StoredLastSync(companies, call[k].companyId)
         IN  (/\ LookedUp(k)
              /\ ~call[k].force
              /\ stored # NullTime
              /\ now - stored < OneHour)
             => /\ call'[k].pc = "returned"
                /\ call'[k].did \cap FetchOps = {}
                /\ call'[k].did = {"getLastSync"}
                /\ call'[k].result = [success |-> TRUE, paymentsCount |-> 0,
                                      membershipsCount |-> 0, productsCount |-> 0,
                                      syncedAt |-> stored, error |-> Null]
                /\ UNCHANGED <<companies, payments, memberships, products>>]_vars

\* A non-forced invocation has returned at the freshness check with the stored
\* timestamp, which is that of the instant before.
C1_Witness ==
    \E k \in Calls :
        /\ call[k].pc = "returned" /\ call[k].skipped /\ ~call[k].force
        /\ call[k].result.syncedAt = companies[call[k].companyId].last_sync
        /\ call[k].result.syncedAt = now - 1

CycleStages == {"upsertCompany", "fetching", "upserting", "updating"}

\* A step of invocation k that leaves a stage of the cycle without a failure
\* enters the next stage (the upserts of three empty arrays need no statement),
\* and the step that returns ends the full cycle: every function was called,
\* the three bulk upserts completed and the last-sync update was applied.
RunsCycle(k) ==
    (/\ call[k].pc \in CycleStages
     /\ call'[k].pc # call[k].pc
     /\ call'[k].failed = Null)
    => \/ /\ call[k].pc = "upsertCompany"
          /\ call'[k].pc = "fetching"
          /\ companies'[call[k].companyId].exists
       \/ /\ call[k].pc = "fetching"
          /\ call'[k].fetched = FetchNames
          /\ \/ call'[k].pc = "upserting"
             \/ /\ call'[k].pc = "updating"
                /\ call'[k].rowsPayments = {} /\ call'[k].rowsMemberships = {}
                /\ call'[k].rowsProducts = {}
       \/ /\ call[k].pc = "upserting"
          /\ call'[k].pc = "updating"
          /\ \A n \in FetchNames : call'[k].up[n] = "ok"
       \/ /\ call[k].pc = "updating"
          /\ call'[k].pc = "returned"
          /\ call'[k].did = AllOps
          /\ \A n \in FetchNames : call'[k].up[n] = "ok"
          /\ call'[k].wroteLastSync /\ ~call'[k].skipped
          /\ call'[k].result.success
          /\ companies'[call[k].companyId].last_sync = call[k].lsTs

\* C2: syncCompanyData with force=true always runs the full cycle (company
\* upsert, three fetches, three bulk upserts, last-sync update), whatever the
\* stored last-sync timestamp is: it never returns at the freshness check, and
\* unless an operation fails it goes through every stage.
C2_ForcedSyncRunsFullCycle ==
    [][\A k \in Calls :
         /\ (LookedUp(k) /\ call[k].force)
               => (call'[k].pc = "upsertCompany" /\ ~call'[k].skipped)
         /\ call[k].force => RunsCycle(k)]_vars

\* A forced invocation that read a last-sync timestamp of this very instant
\* has fetched, has upserted its rows and is about to update the timestamp.
C2_Witness ==
    \E k \in Calls :
        /\ call[k].force /\ call[k].pc = "updating"
        /\ call[k].lastSync = now
        /\ call[k].rowsPayments # {}
        /\ \A r \in call[k].rowsPayments : BagIn(r, payments)

\* C3: for a company with no prior sync record (no company row, or a row with
\* a null last-sync timestamp) syncCompanyData runs the full cycle, with
\* force=false as with force=true; the lookup that finds no row gives null, it
\* does not fail.
C3_NeverSyncedRunsFullCycle ==
    [][\A k \in Calls :
         /\ \A msg \in StoreErrors :
              (/\ GetLastSync(k, TRUE, msg)
               /\ StoredLastSync(companies, call[k].companyId) = NullTime)
              => (call'[k].failed = Null /\ call'[k].pc = "upsertCompany")
         /\ (call[k].pc \in CycleStages /\ call[k].lastSync = NullTime)
               => RunsCycle(k)]_vars

\* A non-forced invocation for a company never synced found no timestamp,
\* has upserted its rows and is about to update the timestamp.
C3_Witness ==
    \E k \in Calls :
        /\ ~call[k].force /\ call[k].pc = "updating"
        /\ call[k].lastSync = NullTime
        /\ call[k].rowsPayments # {}
        /\ \A r \in call[k].rowsPayments : BagIn(r, payments)
        /\ products # EmptyBag

\* How many rows of a table have a given conflict target.
PaymentsWithKey(table, key) ==
    BagCardinality([r \in {x \in BagToSet(table) : PaymentKey(x) = key} |-> table[r]])
MembershipsWithKey(table, key) ==
    BagCardinality([r \in {x \in BagToSet(table) : MembershipKey(x) = key} |-> table[r]])
ProductsWithKey(table, key) ==
    BagCardinality([r \in {x \in BagToSet(table) : ProductKey(x) = key} |-> table[r]])

NoDuplicateKey(tp, tm, tpr) ==
    /\ \A r \in BagToSet(tp) : PaymentsWithKey(tp, PaymentKey(r)) = 1
    /\ \A r \in BagToSet(tm) : MembershipsWithKey(tm, MembershipKey(r)) = 1
    /\ \A r \in BagToSet(tpr) : ProductsWithKey(tpr, ProductKey(r)) = 1

\* A product row without created_at, which every sync sets to its own time.
ProductIdentity(r) == [id |-> r.id, company_id |-> r.company_id, name |-> r.name]

\* The cache holds what a sync of company c's present upstream data writes:
\* each normalised row once and unaltered, and no other row with its key.
CacheInSync(c) ==
    /\ \A r \in PaymentsFormatted(c, upstream[c].receipts) :
          BagIn(r, payments) /\ PaymentsWithKey(payments, PaymentKey(r)) = 1
    /\ \A r \in MembershipsFormatted(c, upstream[c].members) :
          BagIn(r, memberships) /\ MembershipsWithKey(memberships, MembershipKey(r)) = 1
    /\ \A r \in ProductsFormatted(c, ExtractProducts(upstream[c].receipts), 0) :
          /\ ProductsWithKey(products, ProductKey(r)) = 1
          /\ \E x \in BagToSet(products) : ProductIdentity(x) = ProductIdentity(r)

\* Invocation k ran the whole cycle and returned success.
Completed(k) ==
    /\ call[k].pc = "returned"
    /\ call[k].result.success
    /\ ~call[k].skipped

\* A step of a syncCompanyData(force=true) invocation k that was called after
\* a forced sync of the same company had returned success, the upstream data
\* unchanged since.
SecondForcedSyncStep(k) ==
    /\ call'[k] # call[k]
    /\ call[k].force
    /\ upVersion' = 0
    /\ \E j \in call[k].after :
          /\ Completed(j) /\ call[j].force
          /\ call[j].companyId = call[k].companyId

\* C4 as stated: running syncCompanyData(force=true) twice in succession
\* against unchanged upstream data leaves the payments, memberships and
\* products tables with the same set of rows as after the first run.
C4_SecondSyncLeavesSameRows ==
    [][\A k \in Calls :
         SecondForcedSyncStep(k)
         => /\ payments' = payments
            /\ memberships' = memberships
            /\ products' = products]_vars

\* C4, amended: the second run leaves the payments and memberships tables with
\* the same rows and the products table with the same rows up to created_at,
\* which every sync sets to its own time; the row counts are the same and no
\* key is duplicated.
C4_SyncIsIdempotent ==
    [][\A k \in Calls :
         SecondForcedSyncStep(k)
         => /\ payments' = payments
            /\ memberships' = memberships
            /\ {ProductIdentity(r) : r \in BagToSet(products')}
                  = {ProductIdentity(r) : r \in BagToSet(products)}
            /\ BagCardinality(products') = BagCardinality(products)
            /\ NoDuplicateKey(payments', memberships', products')]_vars

\* A second forced sync has completed after a first forced sync had, the
\* upstream data unchanged; it rewrote the product rows an instant later.
C4_Witness ==
    \E k \in Calls : \E j \in call[k].after :
        /\ Completed(k) /\ call[k].force /\ Completed(j) /\ call[j].force
        /\ upVersion = 0
        /\ call[k].result.paymentsCount > 0
        /\ call[j].result.syncedAt < call[k].result.syncedAt
        /\ \E x \in BagToSet(products) : x.created_at = call[k].result.syncedAt

\* C7: two overlapping syncCompanyData calls for one company, against the same
\* upstream data, end in the cache a single sync gives, whatever the
\* interleaving of their fetches and upserts: every normalised row once,
\* unaltered, and no duplicate key.
C7_OverlappingSyncsConverge ==
    \A c \in SyncedCompanies :
        (/\ upVersion = 0
         /\ \A k \in Calls : Completed(k) /\ call[k].companyId = c)
        => (CacheInSync(c) /\ NoDuplicateKey(payments, memberships, products))

\* Two non-forced invocations have both run the whole cycle: each passed the
\* freshness check before the other updated the timestamp.
C7_Witness ==
    /\ upVersion = 0
    /\ \A k \in Calls :
          /\ Completed(k) /\ ~call[k].force /\ call[k].after = {}
          /\ call[k].result.paymentsCount > 0
          /\ call[k].result.membershipsCount > 0

\* The message the catch block reports for a failure of each function.
ErrorsOf(op) ==
    IF op = "fetchAllPayments" THEN {"Failed to fetch receipts from Whop API"}
    ELSE IF op = "fetchAllMemberships" THEN {"Failed to fetch members from Whop API"}
    ELSE IF op = "fetchAllProducts" THEN {"Failed to fetch products from Whop API"}
    ELSE StoreErrors

\* C5: syncCompanyData never raises to its caller: a step in which the
\* last-sync lookup, the company upsert, an upstream fetch, a bulk upsert or the
\* last-sync update fails leaves the invocation returned with success=false,
\* zero counts and the error message.
C5_SyncNeverRaises ==
    [][\A k \in Calls :
         SyncStep(k, FALSE)
         => /\ call'[k].pc = "returned"
            /\ call'[k].failed \in AllOps
            /\ ~call'[k].result.success
            /\ call'[k].result.paymentsCount = 0
            /\ call'[k].result.membershipsCount = 0
            /\ call'[k].result.productsCount = 0
            /\ call'[k].result.error \in ErrorsOf(call'[k].failed)]_vars

\* An invocation whose memberships upsert failed has returned the failure.
C5_Witness ==
    \E k \in Calls :
        /\ call[k].pc = "returned" /\ call[k].failed = "bulkInsertMemberships"
        /\ ~call[k].result.success
        /\ call[k].result.error \in StoreErrors

\* C6: the last-sync timestamp is written only as the final step of a
\* successful sync, after the three bulk upserts: a step changes the stored
\* timestamp only if it is the step in which an invocation returns success, and
\* when an invocation returns success=false the stored timestamp is the one
\* its lookup found.
C6_LastSyncOnlyOnSuccess ==
    [][/\ \A c \in Companies :
            StoredLastSync(companies', c) # StoredLastSync(companies, c)
            => \E k \in Calls :
                  /\ call[k].companyId = c
                  /\ call[k].pc = "updating"
                  /\ \A n \in FetchNames : call[k].up[n] = "ok"
                  /\ call'[k].pc = "returned" /\ call'[k].result.success
                  /\ StoredLastSync(companies', c) = call[k].lsTs
       /\ \A k \in Calls :
            (/\ call[k].pc \in CycleStages
             /\ call'[k].pc = "returned"
             /\ ~call'[k].result.success)
            => /\ ~call'[k].wroteLastSync
               /\ StoredLastSync(companies', call[k].companyId) = call[k].lastSync]_vars

\* The last-sync update of an invocation failed an hour and a half after the
\* previous sync: the stored timestamp is still the old one, and a non-forced
\* sync is not skipped.
C6_Witness ==
    \E k \in Calls :
        /\ call[k].pc = "returned" /\ call[k].failed = "updateLastSync"
        /\ StoredLastSync(companies, call[k].companyId) = 0
        /\ now = OneHour + 1
        /\ ~IsFresh(FALSE, StoredLastSync(companies, call[k].companyId), now)

\* C9: the coordinator never commits partially in silence: a bulk upsert that
\* fails makes the result success=false and undoes none of the rows written, a
\* returned result with success=true that was not skipped has its three bulk
\* upserts completed, and the last-sync update is applied only after them.
C9_NoSilentPartialCommit ==
    [][\A k \in Calls :
         /\ \A msg \in StoreErrors :
              (\/ BulkInsertPayments(k, FALSE, msg)
               \/ BulkInsertMemberships(k, FALSE, msg)
               \/ BulkInsertProducts(k, FALSE, msg))
              => /\ call'[k].pc = "returned" /\ ~call'[k].result.success
                 /\ UNCHANGED <<companies, payments, memberships, products>>
         /\ call'[k].pc = "returned"
              => /\ (\E n \in FetchNames : call'[k].up[n] = "err")
                       => ~call'[k].result.success
                 /\ (call'[k].result.success /\ ~call'[k].skipped)
                       => /\ \A n \in FetchNames : call'[k].up[n] = "ok"
                          /\ call'[k].wroteLastSync
         /\ (call'[k].wroteLastSync /\ ~call[k].wroteLastSync)
              => /\ \A n \in FetchNames : call[k].up[n] = "ok"
                 /\ call[k].pc = "updating"]_vars

\* The payments upsert of a first sync failed after the products upsert had
\* completed: the product rows stay in the cache, the result is a failure.
C9_Witness ==
    \E k \in Calls :
        /\ call[k].pc = "returned" /\ call[k].failed = "bulkInsertPayments"
        /\ call[k].up["products"] = "ok"
        /\ ~call[k].result.success
        /\ payments = EmptyBag /\ products # EmptyBag
        /\ StoredLastSync(companies, call[k].companyId) = NullTime

\* C10: on a failed sync the syncedAt of the result, which the analytics route
\* reports as sync.lastSynced, is the company's previous last-sync timestamp.
C10_FailedSyncReportsPreviousTimestamp ==
    \A k \in Calls :
        (call[k].pc = "returned" /\ ~call[k].result.success)
        => call[k].result.syncedAt = StoredLastSync(companies, call[k].companyId)

\* C8: a query failure inside a metric operation surfaces as an error from the
\* operation, and getDashboardSummary fails as a whole when a query of a
\* sub-computation fails: no invocation during which a query failed returns a
\* value.
C8_QueryFailureSurfaces ==
    (metric.op # Null /\ metric.errors # {}) => metric.outcome = "raised"

\* C11: in a successful sync that was not skipped, the paymentsCount,
\* membershipsCount and productsCount of the result are the numbers of payment,
\* membership and product rows that the sync normalised and upserted.
C11_CountsAreRowsUpserted ==
    [][\A k \in Calls :
         (/\ call[k].pc = "updating"
          /\ call'[k].pc = "returned"
          /\ call'[k].result.success)
         => /\ call'[k].result.paymentsCount = Cardinality(call[k].rowsPayments)
            /\ call'[k].result.membershipsCount = Cardinality(call[k].rowsMemberships)
            /\ call'[k].result.productsCount = Cardinality(call[k].rowsProducts)]_vars

\* The value a getCustomerSegmentation invocation returned.
SegmentationReturned ==
    metric.op = "getCustomerSegmentation" /\ metric.outcome = "returned"

\* C12: getCustomerSegmentation returns exactly four entries, in the order new,
\* active, at_risk, churned; the sum of their counts is at most the number of
\* unique paying customers; with no paid payment of the company the four
\* entries have count 0 and percentage 0.
C12_SegmentsWithinCustomers ==
    SegmentationReturned
    => /\ Len(metric.ret) = 4
       /\ [i \in 1..4 |-> metric.ret[i].segment]
             = <<"new", "active", "at_risk", "churned">>
       /\ metric.ret[1].count + metric.ret[2].count
             + metric.ret[3].count + metric.ret[4].count
             <= Cardinality(UniqueCustomerIds(metric.companyId))
       /\ PaidPayments(metric.companyId) = {}
             => \A i \in 1..4 : metric.ret[i].count = 0 /\ metric.ret[i].percentage = Zero

\* a >= b for two numbers.
QGeq(a, b) == a.num * b.den >= b.num * a.den

\* C13: getTopProducts(limit) returns at most limit entries, ordered by
\* descending revenue, and the sequence is fixed by the cached rows alone: any
\* order in which the store returns the rows gives the sequence returned.
C13_TopProductsFixedByCache ==
    (metric.op = "getTopProducts" /\ metric.outcome = "returned")
    => /\ Len(metric.ret) <= metric.args.limit
       /\ \A i \in 1..(Len(metric.ret) - 1) :
             QGeq(metric.ret[i].revenue, metric.ret[i + 1].revenue)
       /\ \A ord \in RowOrders(TopProductIds(metric.companyId)) :
             getTopProducts(metric.companyId, metric.args.limit,
                            metric.errors, ord).ret = metric.ret

\* C14: the comparison window of calculateRevenue(start, end) has the length
\* of [start, end] and ends at start, for every start <= end.
C14_PreviousWindowAdjoins ==
    (metric.op = "calculateRevenue" /\ metric.outcome = "returned"
       /\ metric.args.startDate <= metric.args.endDate)
    => LET prev == PreviousPeriod(metric.args.startDate, metric.args.endDate)
       IN  /\ prev[2] - prev[1] = metric.args.endDate - metric.args.startDate
           /\ prev[2] = metric.args.startDate

\* The current and the previous value of the three metrics that report a
\* change, read from the cache: revenue in minor units, active members, and
\* the members among them created more than 30 days ago.
RevenueIn(c, a, b) == SumAmount(payments, PaidBetween(c, a, b))
PreviousRevenueIn(c, a, b) ==
    RevenueIn(c, PreviousPeriod(a, b)[1], PreviousPeriod(a, b)[2])
ActiveNow(c) == CountRows(memberships, ActiveMemberships(c))
ActiveBefore(c) ==
    CountRows(memberships,
              {r \in ActiveMemberships(c) :
                  r.created_at # NullTime /\ r.created_at < SubDays(now, 30)})

\* (current - previous) / previous * 100, and 0 when previous is 0.
ChangeOf(current, previous) ==
    IF previous = 0 THEN Zero ELSE Q((current - previous) * 100, previous)

\* C15: the change reported by calculateRevenue, getActiveMemberCount and
\* calculateARPU is (current - previous) / previous * 100, and 0 whenever the
\* previous value is 0 or absent, for any current value.
C15_ChangeIsZeroWithoutPrevious ==
    LET c == metric.companyId
        a == metric.args
    IN  /\ (metric.op = "calculateRevenue" /\ metric.errors = {})
             => metric.ret.change
                  = ChangeOf(RevenueIn(c, a.startDate, a.endDate),
                             PreviousRevenueIn(c, a.startDate, a.endDate))
        /\ (metric.op = "calculateRevenue" /\ "revenue.previous" \in metric.errors)
             => metric.ret.change = Zero
        /\ (metric.op = "getActiveMemberCount" /\ metric.errors = {})
             => metric.ret.change = ChangeOf(ActiveNow(c), ActiveBefore(c))
        /\ (metric.op = "getActiveMemberCount" /\ "members.previous" \in metric.errors)
             => metric.ret.change = Zero
        /\ (metric.op = "calculateARPU" /\ metric.errors = {})
             => metric.ret.change
                  = IF ActiveNow(c) = 0 THEN Zero
                    ELSE ChangeOf(RevenueIn(c, a.startDate, a.endDate),
                                  PreviousRevenueIn(c, a.startDate, a.endDate))

\* calculateRevenue found 19.99 in the last 30 days and nothing in the 30 days
\* before, and reported change 0.
C15_Witness ==
    /\ metric.op = "calculateRevenue" /\ metric.errors = {}
    /\ RevenueIn(metric.companyId, metric.args.startDate, metric.args.endDate) > 0
    /\ PreviousRevenueIn(metric.companyId, metric.args.startDate,
                         metric.args.endDate) = 0
    /\ metric.ret.value = Q(1999, 100)
    /\ metric.ret.change = Zero

\* The company's only receipt upstream is r, a succeeded payment of a
\* major-unit amount with at most two decimals, and a sync of the company has
\* run the whole cycle.
SyncedOnly(r) ==
    /\ Completed("k1")
    /\ upstream[call["k1"].companyId].receipts = {r}
    /\ r.status = "succeeded"
    /\ r.finalAmount % 10 = 0

\* calculateRevenue of the synced company has returned, every query answered,
\* for a range that contains the paid_at of r.
RevenueOver(m, r) ==
    /\ m.op = "calculateRevenue"
    /\ m.outcome = "returned"
    /\ m.errors = {}
    /\ m.companyId = call["k1"].companyId
    /\ m.args.startDate <= r.paidAt
    /\ r.paidAt <= m.args.endDate

\* C16: a succeeded payment of a major-unit amount with at most two decimals
\* is stored by sync with final_amount that amount in integer minor units and
\* status paid, and calculateRevenue, called after the sync over a range
\* containing its paid_at, with no other payment, reports value equal to the
\* original major-unit amount.
C16_AmountRoundTrip ==
    [][\A r \in upstream["c1"].receipts :
          (SyncedOnly(r) /\ metric = NoMetric /\ RevenueOver(metric', r)) =>
             /\ \E row \in BagToSet(payments) :
                   /\ {x \in BagToSet(payments) : x.company_id = row.company_id} = {row}
                   /\ payments[row] = 1
                   /\ row.company_id = call["k1"].companyId
                   /\ row.id = r.id
                   /\ row.final_amount * 10 = r.finalAmount
                   /\ row.status = "paid"
             /\ metric'.ret.value = Q(r.finalAmount, 1000)]_vars

\* 19.99 is stored as 1999 and reported as 19.99.
C16_Witness ==
    /\ SyncedOnly(RA)
    /\ RevenueOver(metric, RA)
    /\ \E row \in BagToSet(payments) : row.final_amount = 1999 /\ row.status = "paid"
    /\ metric.ret.value = Q(1999, 100)

\* Company c has no payment and no membership in the cache.
EmptyCompany(c) ==
    /\ \A r \in BagToSet(payments) : r.company_id # c
    /\ \A r \in BagToSet(memberships) : r.company_id # c

ZeroMetric(m) == m.change = Zero /\ (m.value = Zero \/ m.value = 0)

\* C17: for a company with zero payments and zero memberships in the cache
\* getDashboardSummary returns revenue, memberCount, arpu, mrr and clv with
\* value 0 and change 0, churnRate 0, revenueTimeSeries and topProducts empty,
\* and customerSegments the four zero-count rows.
C17_EmptyCompanySummaryIsZero ==
    (/\ metric.op = "getDashboardSummary"
     /\ EmptyCompany(metric.companyId))
    => /\ metric.outcome = "returned"
       /\ ZeroMetric(metric.ret.revenue)
       /\ metric.ret.memberCount = [value |-> 0, change |-> Zero]
       /\ ZeroMetric(metric.ret.arpu)
       /\ ZeroMetric(metric.ret.mrr)
       /\ ZeroMetric(metric.ret.clv)
       /\ metric.ret.churnRate = Zero
       /\ metric.ret.revenueTimeSeries = <<>>
       /\ metric.ret.topProducts = <<>>
       /\ metric.ret.customerSegments =
             <<[segment |-> "new", count |-> 0, percentage |-> Zero, color |-> "#10b981"],
               [segment |-> "active", count |-> 0, percentage |-> Zero, color |-> "#3b82f6"],
               [segment |-> "at_risk", count |-> 0, percentage |-> Zero, color |-> "#f59e0b"],
               [segment |-> "churned", count |-> 0, percentage |-> Zero, color |-> "#ef4444"]>>

\* The summary of a company without data, while another company has payments
\* and active members in the same tables.
C17_Witness ==
    /\ metric.op = "getDashboardSummary"
    /\ metric.outcome = "returned"
    /\ metric.errors = {}
    /\ EmptyCompany(metric.companyId)
    /\ \E c \in Companies : PaidPayments(c) # {} /\ ActiveMemberships(c) # {}
    /\ metric.ret.revenue.value = Zero
    /\ metric.ret.customerSegments[4].count = 0

\* The paid payments of company c whose paid_at is inside the trailing window
\* of the given number of days.
PaidInWindow(c, days) ==
    {r \in BagToSet(payments) :
        /\ r.company_id = c
        /\ r.status = "paid"
        /\ r.paid_at # NullTime
        /\ r.paid_at >= now - days * Day}

\* The amounts of the rows paid on calendar date d, in minor units.
RECURSIVE CentsOn(_, _)
CentsOn(rows, d) ==
    IF rows = {} THEN 0
    ELSE LET r == CHOOSE x \in rows : TRUE
         IN  (IF r.paid_at \div Day = d THEN payments[r] * r.final_amount ELSE 0)
             + CentsOn(rows \ {r}, d)

SeriesReturned ==
    /\ metric.op = "getRevenueTimeSeries"
    /\ metric.outcome = "returned"
    /\ metric.errors = {}

\* C18: getRevenueTimeSeries(days) returns exactly one entry for each calendar
\* date on which a paid payment with paid_at inside the trailing days window
\* exists, no entry for any other date, entries in strictly ascending date
\* order, and each value is the sum of that date's amounts in major units.
C18_SeriesIsSparseAndOrdered ==
    SeriesReturned =>
       LET rows == PaidInWindow(metric.companyId, metric.args.days)
           series == metric.ret
       IN  /\ {series[i].date : i \in DOMAIN series} = {r.paid_at \div Day : r \in rows}
           /\ \A i, j \in DOMAIN series : i < j => series[i].date < series[j].date
           /\ \A i \in DOMAIN series :
                 series[i].value = Q(CentsOn(rows, series[i].date), 100)

\* Two dates in the window, one of them with two payments (19.99 and 9.99)
\* that are summed, while a refunded payment gets no entry.
C18_Witness ==
    /\ SeriesReturned
    /\ Len(metric.ret) = 2
    /\ metric.ret[2].value = Q(2998, 100)
    /\ \E r \in BagToSet(payments) :
          /\ r.company_id = metric.companyId
          /\ r.status = "refunded"
          /\ r.paid_at >= now - metric.args.days * Day

\* C19: calculateARPU divides the current-period revenue and the
\* previous-period revenue by one and the same active-member count, also when
\* a sync of the company writes memberships between its store reads.
C19_OneDenominator ==
    (metric.op = "calculateARPU" /\ metric.outcome = "returned")
    => metric.denominators[1] = metric.denominators[2]

\* The company's memberships that are valid and were created before 30 days
\* ago.
ActiveThirtyDaysAgo(c) ==
    {r \in BagToSet(memberships) :
        /\ r.company_id = c
        /\ r.valid
        /\ r.created_at # NullTime
        /\ r.created_at < now - 30 * Day}

\* The company's memberships that are not valid, cancelled or expired, with an
\* expiry within the last 30 days.
ChurnedLastThirtyDays(c) ==
    {r \in BagToSet(memberships) :
        /\ r.company_id = c
        /\ ~r.valid
        /\ r.status \in {"cancelled", "expired"}
        /\ r.expires_at # NullTime
        /\ now - 30 * Day <= r.expires_at
        /\ r.expires_at <= now}

ChurnReturned ==
    /\ metric.op = "calculateChurnRate"
    /\ metric.outcome = "returned"
    /\ metric.errors = {}

\* C20: calculateChurnRate returns churned / activeThirtyDaysAgo * 100, and 0
\* whenever activeThirtyDaysAgo is 0, whatever the churned count.
C20_ChurnRateFormula ==
    ChurnReturned =>
       LET active == Cardinality(ActiveThirtyDaysAgo(metric.companyId))
           churned == Cardinality(ChurnedLastThirtyDays(metric.companyId))
       IN  /\ active = 0 => metric.ret = Zero
           /\ active > 0 => metric.ret = Q(churned * 100, active)

\* One membership churned in the window, one that expired before it, one
\* active 30 days ago and one created since: the rate is 100.
C20_Witness ==
    /\ ChurnReturned
    /\ Cardinality(ActiveThirtyDaysAgo(metric.companyId)) = 1
    /\ Cardinality(ChurnedLastThirtyDays(metric.companyId)) = 1
    /\ \E r \in BagToSet(memberships) :
          r.company_id = metric.companyId /\ r.status = "expired"
    /\ metric.ret = Q(100, 1)

\* status of payments: paid, refunded, failed, pending, unknown
PaymentStatuses == {"paid", "refunded", "failed", "pending", "unknown"}
\* status of memberships: trialing, active, cancelled, expired, past_due
MembershipStatusValues == {"trialing", "active", "cancelled", "expired", "past_due"}

\* C21: every row written to the cache by sync has a status inside its
\* entity's enumerated set, for any upstream record.
C21_StatusesAreEnumerated ==
    /\ \A r \in BagToSet(payments) : r.status \in PaymentStatuses
    /\ \A r \in BagToSet(memberships) : r.status \in MembershipStatusValues

\* The request being handled carries a signature, a company id and one of
\* the seven handled event types.
HookTriggers ==
    /\ hook.signature \notin {Null, ""}
    /\ hook.companyId # Null
    /\ hook.eventType \in {"payment.succeeded", "payment.failed", "payment.refunded",
                           "membership.created", "membership.updated",
                           "membership.cancelled", "membership.expired"}

\* C22: a webhook POST that carries a signature header, a company id and one
\* of the seven handled event types triggers exactly one forced sync of that
\* company, which is not skipped even inside the 1-hour freshness window; an
\* unhandled event type, a missing signature or a missing company id triggers
\* no sync.
C22_WebhookForcesOneSync ==
    hook.pc \in {"syncing", "responded"} =>
       IF HookTriggers
       THEN /\ hook.syncs = <<<<hook.companyId, TRUE>>>>
            /\ call["k1"].pc # "idle"
            /\ call["k1"].companyId = hook.companyId
            /\ call["k1"].force
            /\ ~call["k1"].skipped
       ELSE /\ hook.syncs = <<>>
            /\ call["k1"].pc = "idle"

\* A handled event arrived within the hour after a sync, and the sync it
\* forced has read that fresh last-sync value and gone on to fetch and upsert.
C22_Witness ==
    /\ hook.pc = "syncing"
    /\ HookTriggers
    /\ hook.eventType = "membership.expired"
    /\ call["k1"].lastSync # NullTime
    /\ call["k1"].lastSync > now - OneHour
    /\ "bulkInsertPayments" \in call["k1"].did

\* Invocation k has caught the failure of one of its three upstream fetches.
FetchFailed(cl) == cl.pc = "returned" /\ cl.failed \in FetchOps

\* C23: a sync of which one of the three upstream fetches fails writes no
\* payment, membership or product row: it has called no bulk upsert and no
\* last-sync update, no upsert of it is pending, and the three tables do not
\* change in the step in which it fails, nor afterwards on its account.
C23_FailedFetchWritesNoRows ==
    [][\A k \in Calls :
          FetchFailed(call'[k]) =>
             /\ call'[k].did \subseteq {"getLastSync", "upsertCompany"} \cup FetchOps
             /\ \A n \in FetchNames : call'[k].up[n] = "none"
             /\ call'[k].rowsPayments = {}
             /\ call'[k].rowsMemberships = {}
             /\ call'[k].rowsProducts = {}
             /\ UNCHANGED <<payments, memberships, products>>
             /\ StoredLastSync(companies', call'[k].companyId)
                   = StoredLastSync(companies, call'[k].companyId)]_vars

\* A company never synced whose upstream has data: the product fetch failed,
\* the company record exists and the three tables are still empty.
C23_Witness ==
    /\ FetchFailed(call["k1"])
    /\ call["k1"].failed = "fetchAllProducts"
    /\ upstream[call["k1"].companyId].receipts # {}
    /\ companies[call["k1"].companyId].exists
    /\ payments = EmptyBag
    /\ memberships = EmptyBag
    /\ products = EmptyBag

\* C24: once syncCompanyData has returned its result, that call performs no
\* further write to the cache store: no bulk upsert started by the call is
\* applied after the result was returned.
C24_NoWriteAfterReturn ==
    [][\A k \in Calls :
          (/\ call[k].pc = "returned"
           /\ \E n \in FetchNames : call[k].up[n] = "todo" /\ call'[k].up[n] = "ok")
          => UNCHANGED <<payments, memberships, products>>]_vars

\* Invocation k ran the whole cycle and fetched the receipts and the members
\* the upstream holds now.
FetchedLatest(k) ==
    /\ Completed(k)
    /\ call[k].result.paymentsCount = Cardinality(upstream[call[k].companyId].receipts)
    /\ call[k].result.membershipsCount = Cardinality(upstream[call[k].companyId].members)

\* C25: when two sync calls for the same company overlap and the upstream
\* data changes between their fetches, then after both have completed the
\* cached rows are the normalisation of the later-fetched upstream data: rows
\* of the older fetch have not overwritten rows of the newer one.
C25_NewerFetchWins ==
    \A c \in SyncedCompanies :
        (/\ upVersion > 0
         /\ \A k \in Calls : Completed(k) /\ call[k].companyId = c
         /\ \A k \in Calls : call[k].after = {}
         /\ \E k \in Calls : FetchedLatest(k))
        => CacheInSync(c)

\* The rows of a table that company c owns.
OwnedRows(table, c) == {r \in BagToSet(table) : r.company_id = c}

\* C26: syncCompanyData(c) never creates, modifies or re-assigns a payment,
\* membership or product row whose company_id is another company, and never
\* changes another company's last-sync timestamp.  Only the first company is
\* synced here, so every step leaves the rows the other company owns.
C26_OtherCompanyUntouched ==
    [][\A c \in Companies \ SyncedCompanies :
          /\ OwnedRows(payments', c) = OwnedRows(payments, c)
          /\ OwnedRows(memberships', c) = OwnedRows(memberships, c)
          /\ OwnedRows(products', c) = OwnedRows(products, c)
          /\ companies'[c] = companies[c]]_vars

\* The name of product id in the rows that company c owns, and 'Unknown
\* Product' when c owns no such row: what getTopProducts gives on every cache
\* that has these rows of c and no product row of another company.
OwnProductName(c, id) ==
    LET rows == {p \in OwnedRows(products, c) : p.id = id}
    IN  IF rows = {} THEN "Unknown Product" ELSE (CHOOSE p \in rows : TRUE).name

\* C27: getDashboardSummary(c, start, end) depends only on cached rows owned
\* by company c: in the step in which it returns, the product names of its
\* topProducts are those of the product rows c owns, as they are on a cache
\* that agrees on the rows of c and has no rows of other companies.
C27_SummaryOfOwnRows ==
    [][(/\ metric = NoMetric
        /\ metric'.op = "getDashboardSummary"
        /\ metric'.outcome = "returned"
        /\ metric'.errors = {})
       => \A i \in DOMAIN metric'.ret.topProducts :
             metric'.ret.topProducts[i].productName
                = OwnProductName(metric'.companyId,
                                 metric'.ret.topProducts[i].productId)]_vars

\* What syncCompanyData(force=false) does with the last-sync value it reads at
\* instant t: TRUE when it goes on to the fetch-and-upsert cycle, FALSE when it
\* returns at the freshness check.
RunsFullCycle(c, lastSync, t) ==
    ~CheckFresh(StartedCall(c, FALSE), lastSync, t).skipped

\* C28: for every stored last-sync value, the needsSync that getSyncStatus
\* returns is true exactly when syncCompanyData(force=false) evaluated at the
\* same instant would run the full cycle instead of skipping.
C28_StatusAgreesWithSync ==
    [][(/\ metric = NoMetric
        /\ metric'.op = "getSyncStatus"
        /\ metric'.outcome = "returned")
       => (metric'.ret.needsSync
             <=> RunsFullCycle(metric'.companyId, metric'.ret.lastSync, now))]_vars

\* Invocation k takes its last step, the update of the last-sync timestamp,
\* and returns success; the products it fetched are those of the receipts it
\* fetched, as they are when the upstream data did not change between its
\* fetches.
SyncSucceedsOnOneSnapshot(k) ==
    /\ call[k].pc = "updating"
    /\ call'[k].pc = "returned"
    /\ call'[k].result.success
    /\ call[k].products = ExtractProducts(call[k].payments)

C30_ChurnRateIsPercentage ==
    (metric.op = "calculateChurnRate" /\ metric.outcome = "returned")
    => /\ 0 <= metric.ret.num
       /\ metric.ret.num <= 100 * metric.ret.den

====
